---- MODULE Spec2Model ----
(***************************************************************************)
(* GrokSearch: the session-scoped retrieval orchestration core.            *)
(*                                                                         *)
(*   ConversationManager  (src/grok_search/conversation.py)   SpecConv     *)
(*   SourcesCache         (src/grok_search/sources.py)        SpecCache    *)
(*   retrying executor    (src/grok_search/providers/grok.py) SpecRetry    *)
(*                                                                         *)
(* Each component has its own specification over its own variables; the    *)
(* variables of the other components are left unchanged by it.             *)
(***************************************************************************)
EXTENDS Integers, Sequences, FiniteSets, TLC

VARIABLES
    \* ---- ConversationManager ----
    sessions,         \* self._sessions: insertion-ordered dict, as a sequence of ConversationSession
    max_sessions,     \* self._max_sessions
    session_timeout,  \* self._session_timeout
    max_searches,     \* self._max_searches
    now,              \* time.time(), a discrete clock
    ret,              \* the last ConversationManager/session operation and what it returned
    \* ---- SourcesCache ----
    cache,            \* self._cache: OrderedDict, as a sequence of [key, value], oldest first
    max_size,         \* self._max_size
    cret,             \* the last SourcesCache operation and what it returned
    ever_set,         \* history: the handles set(...) was ever called with
    streak,           \* history: the distinct handles of the latest run of set calls
    recency,          \* history: the handles in the order of their latest set or successful get
    oplog,            \* history: the first operations since construction
    \* ---- GrokSearchProvider._execute_stream_with_retry (one logical request) ----
    retry_max_attempts,  \* config.retry_max_attempts
    retry_multiplier,    \* config.retry_multiplier
    retry_max_wait,      \* config.retry_max_wait
    rpc,                 \* "attempt" | "sleeping" | "returned" | "raised"
    attempt_number,      \* retry_state.attempt_number
    tries,               \* HTTP tries made so far (client.stream calls)
    outcome,             \* retry_state.outcome: how the last try ended
    upcoming_sleep,      \* retry_state.upcoming_sleep: the wait before the next try, -1 if none
    raised,              \* the exception that left the call, NoOutcome if none did
    failures,            \* history: the tries that ended with a retryable failure
    \* ---- one tool request of server.py in flight ----
    run,                 \* the handler's locals (ReflectEngine.run, _execute_search) and its position
    calls,               \* history: the awaited calls the handler started
    \* ---- split_answer_and_sources (one call) ----
    text,                \* the argument: the provider's raw answer, as a sequence of tokens
    split,               \* the returned (answer, sources), NoSplit before the call
    \* ---- GrokSearchProvider._parse_streaming_response (one call) ----
    response,            \* response.aiter_lines(): the lines of the response, in arrival order
    parsed,              \* how the call ended, NoParse before the call
    \* ---- concurrent tool requests on the module-level store and cache ----
    tasks,               \* per asyncio task: the handler's locals and its position
    held                 \* history: what the tasks did with the two locks

convVars == <<sessions, max_sessions, session_timeout, max_searches, now, ret>>

cacheVars == <<cache, max_size, cret, ever_set, streak, recency, oplog>>

retryVars == <<retry_max_attempts, retry_multiplier, retry_max_wait, rpc,
               attempt_number, tries, outcome, upcoming_sleep, raised, failures>>

serverVars == <<run, calls>>

splitVars == <<text, split>>

streamVars == <<response, parsed>>

taskVars == <<tasks, held>>

vars == <<convVars, cacheVars, retryVars, serverVars, splitVars, streamVars, taskVars>>

None == "None"

(***************************************************************************)
(* Bounds of the model.                                                    *)
(***************************************************************************)
MaxTime == 2            \* the clock runs 0..MaxTime
MaxSearchesBound == 1   \* max_searches is drawn from 0..MaxSearchesBound
MaxMessages == 1        \* a session's history is cut off at this length

MaxSessionsChoices == {1, 2}   \* the values max_sessions is drawn from
SessionTimeoutChoices == {1}   \* the values session_timeout is drawn from

MaxCacheSize == 2       \* max_size is drawn from 1..MaxCacheSize

Handles == {"h1", "h2", "h3", "h4"}

MaxRetryAttempts == 3   \* retry_max_attempts is drawn from 0..MaxRetryAttempts
MaxMultiplier == 2      \* retry_multiplier is drawn from 1..MaxMultiplier
MaxWait == 2            \* retry_max_wait is drawn from 1..MaxWait
MaxHeaderLen == 2       \* a Retry-After header text has at most this many characters

\* the source lists handed to SourcesCache.set
SourceLists == {<<>>, <<"u1">>, <<"u1", "u2">>, <<"u2", "u1">>}

SessionIds == {"a", "b", "c"}

(***************************************************************************)
(* ConversationSession                                                     *)
(***************************************************************************)
NewSession(sid, t) ==
    [session_id |-> sid, messages |-> <<>>, created_at |-> t,
     last_access |-> t, search_count |-> 0]

add_user_message(s, t) ==
    [s EXCEPT !.messages = Append(@, "user"),
              !.last_access = t,
              !.search_count = @ + 1]

add_assistant_message_counted(s, t) ==
    [s EXCEPT !.messages = Append(@, "assistant"),
              !.last_access = t,
              !.search_count = @ + 1]

add_assistant_message(s, t) ==
    [s EXCEPT !.messages = Append(@, "assistant"),
              !.last_access = t]

is_expired_late(s, t, timeout_seconds) == (t - s.last_access) > timeout_seconds + 1

is_expired(s, t, timeout_seconds) == (t - s.last_access) > timeout_seconds

is_over_limit_strict(s, max) == s.search_count > max

is_over_limit(s, max) == s.search_count >= max

IsDead(s, t) == is_expired(s, t, session_timeout) \/ is_over_limit(s, max_searches)

(***************************************************************************)
(* The insertion-ordered dict self._sessions.                              *)
(***************************************************************************)
Keys(d) == {d[i].session_id : i \in 1..Len(d)}

Lookup(d, sid) == d[CHOOSE i \in 1..Len(d) : d[i].session_id = sid]

Delete(d, sid) == SelectSeq(d, LAMBDA s : s.session_id # sid)

Assign_existing_only(d, sid, s) ==
    [i \in 1..Len(d) |-> IF d[i].session_id = sid THEN s ELSE d[i]]

\* d[sid] = s: an existing key keeps its position, a new key goes last
Assign(d, sid, s) ==
    IF sid \in Keys(d)
    THEN [i \in 1..Len(d) |-> IF d[i].session_id = sid THEN s ELSE d[i]]
    ELSE Append(d, s)

OldestId_first(d) == d[1].session_id

\* min(d, key=lambda k: d[k].last_access): the first key with the least last_access
OldestId(d) ==
    LET i == CHOOSE i \in 1..Len(d) :
                 /\ \A j \in 1..Len(d) : d[i].last_access <= d[j].last_access
                 /\ \A j \in 1..(i - 1) : d[j].last_access > d[i].last_access
    IN d[i].session_id

cleanup_expired_idle(d, t) == SelectSeq(d, LAMBDA s : s.last_access = t)

cleanup_expired(d, t) == SelectSeq(d, LAMBDA s : ~IsDead(s, t))

(***************************************************************************)
(* ConversationManager operations.  Each runs under self._lock with no     *)
(* await inside, so each is one atomic step.                               *)
(***************************************************************************)
\* What the last operation did: returned is the session_id of the returned
\* ConversationSession (a reference to the stored object) or None; created says
\* the returned session was constructed by this call; purged are the ids deleted
\* as expired or over the limit, evicted the ids deleted to make room.
Result(op, arg, returned, created, purged, evicted) ==
    [op |-> op, arg |-> arg, returned |-> returned, created |-> created,
     purged |-> purged, evicted |-> evicted]

NoResult(op, arg) == Result(op, arg, None, FALSE, {}, {})

\* len(self._sessions) >= self._max_sessions
AtCapacity_strict(d) == Len(d) > max_sessions

AtCapacity(d) == Len(d) >= max_sessions

\* new_session_id(): uuid4().hex[:12], an id no stored session has
NewSessionIds(d) == SessionIds \ Keys(d)

\* get_or_create(session_id): the clock may advance between the purge (read
\* at now) and the later liveness test and construction (read at t2).
GetOrCreate(session_id) ==
    \E t2 \in {now, now + 1} :
      /\ t2 <= MaxTime
      /\ LET purged == cleanup_expired(sessions, now)
             present == session_id # "" /\ session_id \in Keys(purged)
             found == Lookup(purged, session_id)
         IN IF present /\ ~IsDead(found, t2)
            THEN /\ sessions' = purged
                 /\ ret' = Result("get_or_create", session_id, found.session_id, FALSE,
                                  Keys(sessions) \ Keys(purged), {})
            ELSE LET dropped == IF present THEN Delete(purged, session_id) ELSE purged
                     full == AtCapacity(dropped)
                     kept == IF full THEN Delete(dropped, OldestId(dropped)) ELSE dropped
                 IN \E new_id \in (IF session_id # "" THEN {session_id}
                                   ELSE NewSessionIds(sessions)) :
                      LET session == NewSession(new_id, t2)
                      IN /\ sessions' = Assign(kept, new_id, session)
                         /\ ret' = Result("get_or_create", session_id, session.session_id, TRUE,
                                          Keys(sessions) \ Keys(dropped),
                                          IF full THEN {OldestId(dropped)} ELSE {})
      /\ now' = t2
      /\ UNCHANGED <<max_sessions, session_timeout, max_searches>>
      /\ UNCHANGED <<cacheVars, retryVars, serverVars, splitVars, streamVars, taskVars>>

Get(session_id) ==
    /\ IF session_id \notin Keys(sessions)
       THEN /\ ret' = NoResult("get", session_id)
            /\ UNCHANGED sessions
       ELSE LET session == Lookup(sessions, session_id)
            IN IF IsDead(session, now)
               THEN /\ sessions' = Delete(sessions, session_id)
                    /\ ret' = Result("get", session_id, None, FALSE, {session_id}, {})
               ELSE /\ ret' = Result("get", session_id, session.session_id, FALSE, {}, {})
                    /\ UNCHANGED sessions
    /\ UNCHANGED <<max_sessions, session_timeout, max_searches, now>>
    /\ UNCHANGED <<cacheVars, retryVars, serverVars, splitVars, streamVars, taskVars>>

Remove(session_id) ==
    /\ sessions' = Delete(sessions, session_id)
    /\ ret' = NoResult("remove", session_id)
    /\ UNCHANGED <<max_sessions, session_timeout, max_searches, now>>
    /\ UNCHANGED <<cacheVars, retryVars, serverVars, splitVars, streamVars, taskVars>>

Stats ==
    /\ sessions' = cleanup_expired(sessions, now)
    /\ ret' = Result("stats", "", None, FALSE, Keys(sessions) \ Keys(sessions'), {})
    /\ UNCHANGED <<max_sessions, session_timeout, max_searches, now>>
    /\ UNCHANGED <<cacheVars, retryVars, serverVars, splitVars, streamVars, taskVars>>

\* a caller holding the session stored under session_id appends to it
AddUserMessage(session_id) ==
    /\ session_id \in Keys(sessions)
    /\ Len(Lookup(sessions, session_id).messages) < MaxMessages
    /\ sessions' = Assign(sessions, session_id,
                          add_user_message(Lookup(sessions, session_id), now))
    /\ ret' = NoResult("add_user_message", session_id)
    /\ UNCHANGED <<max_sessions, session_timeout, max_searches, now>>
    /\ UNCHANGED <<cacheVars, retryVars, serverVars, splitVars, streamVars, taskVars>>

AddAssistantMessage(session_id) ==
    /\ session_id \in Keys(sessions)
    /\ Len(Lookup(sessions, session_id).messages) < MaxMessages
    /\ sessions' = Assign(sessions, session_id,
                          add_assistant_message(Lookup(sessions, session_id), now))
    /\ ret' = NoResult("add_assistant_message", session_id)
    /\ UNCHANGED <<max_sessions, session_timeout, max_searches, now>>
    /\ UNCHANGED <<cacheVars, retryVars, serverVars, splitVars, streamVars, taskVars>>

\* time passes between operations
Tick ==
    /\ now < MaxTime
    /\ now' = now + 1
    /\ ret' = NoResult("tick", "")
    /\ UNCHANGED <<sessions, max_sessions, session_timeout, max_searches>>
    /\ UNCHANGED <<cacheVars, retryVars, serverVars, splitVars, streamVars, taskVars>>

NextConv ==
    \/ \E sid \in SessionIds \cup {""} : GetOrCreate(sid)
    \/ \E sid \in SessionIds : Get(sid)
    \/ \E sid \in SessionIds : Remove(sid)
    \/ Stats
    \/ \E sid \in SessionIds : AddUserMessage(sid)
    \/ \E sid \in SessionIds : AddAssistantMessage(sid)
    \/ Tick

(***************************************************************************)
(* SourcesCache.  Both operations run under self._lock with no await       *)
(* inside.                                                                 *)
(***************************************************************************)
CacheKeys(c) == {c[i].key : i \in 1..Len(c)}

\* self._cache.get(session_id): the stored list, or None
CacheFetch(c, h) ==
    IF h \in CacheKeys(c)
    THEN [found |-> TRUE, sources |-> c[CHOOSE i \in 1..Len(c) : c[i].key = h].value]
    ELSE [found |-> FALSE, sources |-> <<>>]

IsNone_falsy(r) == ~r.found \/ r.sources = <<>>

\* sources is None
IsNone(r) == ~r.found

\* self._cache[session_id] = sources
CacheAssign(c, h, v) ==
    IF h \in CacheKeys(c)
    THEN [i \in 1..Len(c) |-> IF c[i].key = h THEN [key |-> h, value |-> v] ELSE c[i]]
    ELSE Append(c, [key |-> h, value |-> v])

MoveToEnd_never(c, h) == c

\* self._cache.move_to_end(session_id)
MoveToEnd(c, h) ==
    SelectSeq(c, LAMBDA e : e.key # h) \o SelectSeq(c, LAMBDA e : e.key = h)

PopItem_last(c) == SubSeq(c, 1, Len(c) - 1)

\* self._cache.popitem(last=False)
PopItem(c) == Tail(c)

\* while len(self._cache) > self._max_size: popitem(last=False)
RECURSIVE Shrink(_)
Shrink(c) == IF Len(c) > max_size THEN Shrink(PopItem(c)) ELSE c

CacheResult(op, arg, found, sources) ==
    [op |-> op, arg |-> arg, found |-> found, sources |-> sources]

\* what get(h) returns in the state at hand
GetReturns(c, h) ==
    LET r == CacheFetch(c, h)
    IN IF IsNone(r) THEN [found |-> FALSE, sources |-> <<>>]
                    ELSE [found |-> TRUE, sources |-> r.sources]

LastN(q, n) == IF Len(q) <= n THEN q ELSE SubSeq(q, Len(q) - n + 1, Len(q))

\* history: h has just been set or successfully got
Touch(q, h) == Append(SelectSeq(q, LAMBDA x : x # h), h)

Op(op, arg) == [op |-> op, arg |-> arg]

\* the operations set(a), set(b), get(a), set(c)
Scenario(a, b, c) == <<Op("set", a), Op("set", b), Op("get", a), Op("set", c)>>

\* oplog records as many operations as that, then only that more followed
MaxLog == Len(Scenario("h1", "h2", "h3"))

\* history: one more operation ran
Logged(log, op, arg) ==
    IF Len(log) < MaxLog /\ (log = <<>> \/ log[Len(log)].op # "more")
    THEN Append(log, Op(op, arg))
    ELSE <<Op("more", "")>>

CacheSet(session_id, sources) ==
    /\ cache' = Shrink(MoveToEnd(CacheAssign(cache, session_id, sources), session_id))
    /\ cret' = CacheResult("set", session_id, FALSE, sources)
    /\ ever_set' = ever_set \cup {session_id}
    /\ streak' = IF \E i \in 1..Len(streak) : streak[i] = session_id
                 THEN <<session_id>>
                 ELSE LastN(Append(streak, session_id), max_size + 1)
    /\ recency' = Touch(recency, session_id)
    /\ oplog' = Logged(oplog, "set", session_id)
    /\ UNCHANGED max_size
    /\ UNCHANGED <<convVars, retryVars, serverVars, splitVars, streamVars, taskVars>>

CacheGet(session_id) ==
    /\ LET r == GetReturns(cache, session_id)
       IN /\ cret' = CacheResult("get", session_id, r.found, r.sources)
          /\ cache' = IF r.found THEN MoveToEnd(cache, session_id) ELSE cache
          /\ recency' = IF r.found THEN Touch(recency, session_id) ELSE recency
    /\ streak' = <<>>
    /\ oplog' = Logged(oplog, "get", session_id)
    /\ UNCHANGED <<max_size, ever_set>>
    /\ UNCHANGED <<convVars, retryVars, serverVars, splitVars, streamVars, taskVars>>

NextCache ==
    \/ \E h \in Handles, v \in SourceLists : CacheSet(h, v)
    \/ \E h \in Handles : CacheGet(h)

(***************************************************************************)
(* The retrying request executor.  A try ends "ok" (the streamed body was  *)
(* parsed and returned) or with an exception raised inside the attempt:    *)
(* httpx.TimeoutException, NetworkError, ConnectError, RemoteProtocolError,*)
(* HTTPStatusError (from raise_for_status, with the response's status and  *)
(* Retry-After header), or any other exception ("Other").                  *)
(***************************************************************************)
\* "sup2" stands for U+00B2 SUPERSCRIPT TWO: one character, a digit to
\* str.isdigit() and no number to float()
HeaderChars == {"0", "5", " ", "x", "sup2"}
Digits == {"0", "5"}
DigitLike == {"sup2"}

RECURSIVE Texts(_)
Texts(n) == IF n = 0 THEN {<<>>}
            ELSE Texts(n - 1) \cup {Append(t, c) : t \in Texts(n - 1), c \in HeaderChars}

\* a Retry-After header: absent, a text, or a text that is an HTTP-date lying
\* delta seconds after the moment it is parsed
Headers ==
    {[kind |-> "absent", text |-> <<>>, delta |-> 0]}
    \cup {[kind |-> "text", text |-> t, delta |-> 0] : t \in Texts(MaxHeaderLen)}
    \cup {[kind |-> "date", text |-> <<>>, delta |-> d] : d \in {-1, 4}}

NoHeader == [kind |-> "absent", text |-> <<>>, delta |-> 0]

FiveSeconds == [kind |-> "text", text |-> <<"5">>, delta |-> 0]

StatusCodes == {400, 401, 404, 408, 429, 500, 502, 503, 504}

Outcomes ==
    {[kind |-> k, status |-> 0, header |-> NoHeader] :
        k \in {"ok", "TimeoutException", "NetworkError", "ConnectError",
               "RemoteProtocolError", "Other"}}
    \cup UNION {{[kind |-> "HTTPStatusError", status |-> c, header |-> h] :
                    h \in IF c = 429 THEN Headers
                          ELSE IF c = 503 THEN {NoHeader, FiveSeconds}
                          ELSE {NoHeader}} :
                c \in StatusCodes}

RETRYABLE_STATUS_CODES_with_404 == {404, 408, 429, 500, 502, 503, 504}

RETRYABLE_STATUS_CODES == {408, 429, 500, 502, 503, 504}

is_retryable_exception(exc) ==
    IF exc.kind \in {"TimeoutException", "NetworkError", "ConnectError", "RemoteProtocolError"}
    THEN TRUE
    ELSE IF exc.kind = "HTTPStatusError"
         THEN exc.status \in RETRYABLE_STATUS_CODES
         ELSE FALSE

\* str.strip()
RECURSIVE LStrip(_)
LStrip(t) == IF t # <<>> /\ Head(t) = " " THEN LStrip(Tail(t)) ELSE t

RECURSIVE RStrip(_)
RStrip(t) == IF t # <<>> /\ t[Len(t)] = " " THEN RStrip(SubSeq(t, 1, Len(t) - 1)) ELSE t

Strip(t) == RStrip(LStrip(t))

\* str.isdigit()
IsDigit(t) == t # <<>> /\ \A i \in 1..Len(t) : t[i] \in Digits \cup DigitLike

\* float(header) raises ValueError: a character that is no decimal digit
FloatRaises(t) == \E i \in 1..Len(t) : t[i] \notin Digits

DigitValue(c) == IF c = "5" THEN 5 ELSE 0

\* float(header) of a digit string
RECURSIVE ToFloat(_)
ToFloat(t) == IF t = <<>> THEN 0
              ELSE 10 * ToFloat(SubSeq(t, 1, Len(t) - 1)) + DigitValue(t[Len(t)])

RECURSIVE Pow2(_)
Pow2(n) == IF n = 0 THEN 1 ELSE 2 * Pow2(n - 1)

Min(a, b) == IF a <= b THEN a ELSE b

NoWait == [some |-> FALSE, seconds |-> 0, raises |-> FALSE]

SomeWait(seconds) == [some |-> TRUE, seconds |-> seconds, raises |-> FALSE]

\* the ValueError of float(header) leaves _parse_retry_after
WaitError == [some |-> FALSE, seconds |-> 0, raises |-> TRUE]

parse_retry_after_clamped(header) ==
    IF header.kind = "absent" \/ (header.kind = "text" /\ header.text = <<>>)
    THEN NoWait
    ELSE IF header.kind = "text"
         THEN IF IsDigit(Strip(header.text))
              THEN IF FloatRaises(Strip(header.text)) THEN WaitError
                   ELSE SomeWait(Min(ToFloat(Strip(header.text)), retry_max_wait))
              ELSE NoWait
         ELSE SomeWait(IF header.delta > 0 THEN header.delta ELSE 0)

\* _WaitWithRetryAfter._parse_retry_after: Optional[float]
parse_retry_after(header) ==
    IF header.kind = "absent" \/ (header.kind = "text" /\ header.text = <<>>)
    THEN NoWait
    ELSE IF header.kind = "text"
         THEN IF IsDigit(Strip(header.text))
              THEN IF FloatRaises(Strip(header.text)) THEN WaitError   \* outside the try
                   ELSE SomeWait(ToFloat(Strip(header.text)))
              ELSE NoWait      \* parsedate_to_datetime raises TypeError/ValueError
         ELSE SomeWait(IF header.delta > 0 THEN header.delta ELSE 0)

\* wait_random_exponential(multiplier, max=max_wait): uniform on
\* [0, min(max_wait, multiplier * 2 ** (attempt_number - 1))]
base_wait(n) == 0..Min(retry_max_wait, retry_multiplier * Pow2(n - 1))

protocol_error_base == 3

\* _WaitWithRetryAfter.__call__ for a failed outcome: the waits it can return
WaitWithRetryAfter(n, exc) ==
    IF exc.kind = "HTTPStatusError" /\ exc.status = 429
          /\ parse_retry_after(exc.header).some
    THEN {parse_retry_after(exc.header).seconds}
    ELSE IF exc.kind = "RemoteProtocolError"
         THEN {w + protocol_error_base : w \in base_wait(n)}
         ELSE base_wait(n)

\* _WaitWithRetryAfter.__call__ raises instead of returning a wait
WaitRaises(exc) ==
    /\ exc.kind = "HTTPStatusError" /\ exc.status = 429
    /\ parse_retry_after(exc.header).raises

ValueError == [kind |-> "ValueError", status |-> 0, header |-> NoHeader]

stop_after_attempt_late(n) == n > retry_max_attempts + 1

\* stop_after_attempt(config.retry_max_attempts + 1)
stop_after_attempt(n) == n >= retry_max_attempts + 1

NoOutcome == [kind |-> "none", status |-> 0, header |-> NoHeader]

\* reraise=True: when the tries are used up the exception of the last try is
\* raised, not a RetryError around it
reraise(exc) == exc

\* one pass of AsyncRetrying: the try (client.stream, raise_for_status, the
\* parse of the body) and what the retry policy decides on its outcome.  The
\* installed tenacity decides whether the wait is computed before the stop
\* test (8.3 and later) or only when a further try follows (earlier), so a
\* wait policy that raises on the last try may or may not be heard.
Attempt(o) ==
    /\ rpc = "attempt"
    /\ tries' = tries + 1
    /\ outcome' = o
    /\ IF o.kind = "ok"
       THEN rpc' = "returned" /\ upcoming_sleep' = -1 /\ raised' = NoOutcome
       ELSE IF ~is_retryable_exception(o)
            THEN rpc' = "raised" /\ upcoming_sleep' = -1 /\ raised' = o
            ELSE IF stop_after_attempt(attempt_number)
                 THEN /\ rpc' = "raised" /\ upcoming_sleep' = -1
                      /\ raised' \in {reraise(o)}
                                     \cup (IF WaitRaises(o) THEN {ValueError} ELSE {})
                 ELSE IF WaitRaises(o)
                 THEN rpc' = "raised" /\ upcoming_sleep' = -1 /\ raised' = ValueError
                 ELSE /\ rpc' = "sleeping"
                      /\ upcoming_sleep' \in WaitWithRetryAfter(attempt_number, o)
                      /\ raised' = NoOutcome
    /\ failures' = IF is_retryable_exception(o) THEN failures + 1 ELSE failures
    /\ UNCHANGED <<retry_max_attempts, retry_multiplier, retry_max_wait, attempt_number>>
    /\ UNCHANGED <<convVars, cacheVars, serverVars, splitVars, streamVars, taskVars>>

\* the sleep is over: the next pass begins
Wake ==
    /\ rpc = "sleeping"
    /\ rpc' = "attempt"
    /\ attempt_number' = attempt_number + 1
    /\ UNCHANGED <<retry_max_attempts, retry_multiplier, retry_max_wait, tries,
                   outcome, upcoming_sleep, raised, failures>>
    /\ UNCHANGED <<convVars, cacheVars, serverVars, splitVars, streamVars, taskVars>>

NextRetry ==
    \/ \E o \in Outcomes : Attempt(o)
    \/ Wake

(***************************************************************************)
(* server.py and reflect.py: the tool handlers.  A handler runs from one   *)
(* await to the next in one step; time passes only while it is suspended   *)
(* in an awaited call.  The lock acquisitions of ConversationManager and   *)
(* SourcesCache never suspend here: no holder of a lock awaits inside it.  *)
(***************************************************************************)
MAX_REFLECTIONS_HARD_LIMIT == 3
SINGLE_REFLECTION_TIMEOUT == 30
SEARCH_TIMEOUT == 60
TOTAL_TIMEOUT == 120
MinRemaining == 5          \* the slack of `remaining < 5` and `remaining > 5`
ServerCacheSize == 256     \* _SOURCES_CACHE = SourcesCache(max_size=256)

\* how long an awaited call takes if nothing cuts it short (seconds)
Durations == {0, 25, 60}

\* the configurations of the store the handlers run against
MaxTurnsChoices == {1, 2, 50}
TimeoutChoices == {20, 600}

\* the max_reflections a caller asks for
RequestedReflections == {0, 1, 3, 10}

\* the source lists a search gathers
SearchSources == {<<"u1", "u2">>}

\* ConversationManager.get as a function of the store
manager_get(d, session_id, t) ==
    IF session_id \notin Keys(d)
    THEN [sessions |-> d, returned |-> None]
    ELSE IF IsDead(Lookup(d, session_id), t)
         THEN [sessions |-> Delete(d, session_id), returned |-> None]
         ELSE [sessions |-> d, returned |-> session_id]

\* ConversationManager.get_or_create() with no id: the store with the new session
manager_get_or_create(d, t, new_id) ==
    LET purged == cleanup_expired(d, t)
        kept == IF AtCapacity(purged) THEN Delete(purged, OldestId(purged)) ELSE purged
    IN Assign(kept, new_id, NewSession(new_id, t))

\* SourcesCache.set as a function of the cache
cache_set(c, session_id, sources) ==
    Shrink(MoveToEnd(CacheAssign(c, session_id, sources), session_id))

\* the frame of an _execute_search call suspended in `await asyncio.gather(...)`
\* `before` is history: the messages and the search_count of the conversation
\* when the call began
NoFrame == [conv_session |-> None, session_id |-> "", conversation_id |-> "", query |-> "",
            before |-> [messages |-> <<>>, search_count |-> 0]]

\* _execute_search up to the await of the providers: the fresh handle, the
\* configuration, the conversation, the user message
execute_search_begin(d, c, query, conversation_id, t, session_id, new_id, config_ok) ==
    IF ~config_ok
    THEN [sessions |-> d, cache |-> cache_set(c, session_id, <<>>),
          error |-> "config_error",
          frame |-> [NoFrame EXCEPT !.session_id = session_id]]
    ELSE LET got == IF conversation_id # ""
                    THEN manager_get(d, conversation_id, t)
                    ELSE [sessions |-> d, returned |-> None]
             fresh == got.returned = None
             d2 == IF fresh THEN manager_get_or_create(got.sessions, t, new_id)
                            ELSE got.sessions
             cid == IF fresh THEN new_id ELSE conversation_id
         IN [sessions |-> Assign(d2, cid, add_user_message(Lookup(d2, cid), t)),
             cache |-> c,
             error |-> None,
             frame |-> [conv_session |-> cid, session_id |-> session_id,
                        conversation_id |-> cid, query |-> query,
                        before |-> [messages |-> Lookup(d2, cid).messages,
                                    search_count |-> Lookup(d2, cid).search_count]]]

\* _execute_search after the providers were joined: the assistant message
\* goes to the session object the frame holds, the sources to the cache
execute_search_finish(d, c, frame, t, all_sources) ==
    [sessions |-> IF frame.conv_session \in Keys(d)
                  THEN Assign(d, frame.conv_session,
                              add_assistant_message(Lookup(d, frame.conv_session), t))
                  ELSE d,
     cache |-> cache_set(c, frame.session_id, all_sources)]

(***************************************************************************)
(* GrokSearchProvider.search and the calls ReflectEngine makes to it.      *)
(***************************************************************************)
\* the parameters of GrokSearchProvider.search
SearchParams == {"query", "platform", "min_results", "max_results", "ctx", "history"}

\* the keyword arguments of self.grok.search(...) in _reflect and _validate
ReflectCallKwargs == {"query", "platform", "history", "skip_search_prompt"}

\* the provider handed to ReflectEngine: the GrokSearchProvider search_reflect
\* constructs, or a provider with the interface search(query, platform,
\* history, skip_search_prompt)
Providers == {"GrokSearchProvider", "Stub"}

\* Python binds the call: an unexpected keyword argument raises TypeError
AcceptsCall(grok, kwargs) ==
    IF grok = "GrokSearchProvider" THEN kwargs \subseteq SearchParams ELSE TRUE

\* what a provider answers to the reflection prompt
\* The gap a reply names is an opaque text: the reply to the n-th reflection
\* prompt of a run names the n-th text of a fixed order, so the gaps of
\* different rounds differ.
GapOrder == <<"gap", "another gap", "a third gap">>
GapText ==
    IF calls["reflect"] \in DOMAIN GapOrder THEN GapOrder[calls["reflect"]] ELSE "a later gap"

Replies ==
    {[kind |-> "object", gap |-> g, supplementary_query |-> q] :
        g \in {None} \cup (IF run.pc = "reflect" THEN {GapText} ELSE {}),
        q \in {None, "query"}}
    \cup {[kind |-> k, gap |-> None, supplementary_query |-> None] :
             k \in {"text", "array", "raise"}}

ReflectionRound(gap, supplementary_query) ==
    [gap |-> gap, supplementary_query |-> supplementary_query]

reflect_unchecked(grok, reply) == ReflectionRound("gap", "query")

reflect_no_gap(grok, reply) == ReflectionRound(None, None)

\* ReflectEngine._reflect: every exception becomes "no gap"
reflect(grok, reply) ==
    IF ~AcceptsCall(grok, ReflectCallKwargs) THEN ReflectionRound(None, None)
    ELSE IF reply.kind = "raise" THEN ReflectionRound(None, None)
    ELSE IF reply.kind = "text" THEN ReflectionRound(None, None)    \* _parse_json_safe: {}
    ELSE IF reply.kind = "array" THEN ReflectionRound(None, None)   \* list has no .get
    ELSE ReflectionRound(reply.gap, reply.supplementary_query)

ValidationResult(consistency, conflicts, confidence) ==
    [consistency |-> consistency, conflicts |-> conflicts, confidence |-> confidence]

\* what a provider answers to the validation prompt
ValidationReplies == {"object", "text", "raise"}

\* ReflectEngine._validate
validate(grok, reply) ==
    IF ~AcceptsCall(grok, ReflectCallKwargs) \/ reply = "raise"
    THEN ValidationResult("unknown", <<"validation failed">>, 0)
    ELSE IF reply = "text" THEN ValidationResult("unknown", <<>>, 0)
    ELSE ValidationResult("high", <<>>, 1)

ValidationTimedOut == ValidationResult("unknown", <<"validation timed out">>, 0)

\* validation = None
NoValidation == ValidationResult(None, <<>>, 0)

ReflectTimeoutGap == "reflection timed out"

(***************************************************************************)
(* ReflectEngine.run                                                       *)
(***************************************************************************)
\* a tool result; keys are the keys of the returned dict
ToolResult(keys) ==
    [keys |-> keys, error |-> None, message |-> None, session_id |-> "",
     conversation_id |-> "", content |-> <<>>, reflection_log |-> <<>>,
     round_sessions |-> <<>>, sources_count |-> 0, search_rounds |-> 0,
     validation |-> NoValidation]

SearchKeys == {"session_id", "conversation_id", "content", "sources_count"}

\* the error dict of _execute_search and search_reflect
ConfigError(session_id) ==
    [ToolResult(SearchKeys \cup {"error", "message"})
        EXCEPT !.error = "config_error", !.session_id = session_id]

InitialTimeout ==
    [ToolResult({"error", "message"}) EXCEPT !.error = "timeout"]

\* nothing gathered
NoGather ==
    [pending |-> {}, awaited |-> {}, raised |-> FALSE,
     grok |-> <<>>, tavily |-> <<>>, firecrawl |-> <<>>,
     \* history: the providers that answered and those that failed
     succeeded |-> {}, failed |-> {}]

NoRun ==
    [pc |-> "idle", tool |-> "", grok |-> "", requested |-> 0, max_reflections |-> 0,
     cross_validate |-> FALSE, start_time |-> 0, i |-> 0, timeout |-> 0,
     query |-> "", frame |-> NoFrame, session_id |-> "", conversation_id |-> "",
     reflection_log |-> <<>>, round_sessions |-> <<>>, all_answers |-> <<>>,
     sources_count |-> 0, search_rounds |-> 0, result |-> ToolResult({}),
     gather |-> NoGather,
     \* history: how the initial search ended, what happened later in the run,
     \* and the messages the run appended to the conversation it reports
     initial_outcome |-> "", seen |-> {}, appended |-> [user |-> 0, assistant |-> 0]]

HasError_never(search_result) == FALSE

\* "error" in the dict _execute_search returned
HasError(search_result) == search_result.error # None

gap_info_next(reflection_log, idx) ==
    IF idx < Len(reflection_log) THEN reflection_log[idx + 1].gap ELSE ""

\* reflection_log[idx - 1].get("gap", "") if idx - 1 < len(reflection_log) else "",
\* with the list indexed from 1
gap_info(reflection_log, idx) ==
    IF idx - 1 < Len(reflection_log) THEN reflection_log[idx].gap ELSE ""

\* Step 4 and the return value
Finish(r, validation) ==
    LET n == Len(r.all_answers)
        content == [k \in 1..n |->
                        IF k = 1 THEN [round |-> 0, gap |-> None, answer |-> r.all_answers[1]]
                        ELSE [round |-> k - 1, gap |-> gap_info(r.reflection_log, k - 1),
                              answer |-> r.all_answers[k]]]
        keys == SearchKeys \cup {"reflection_log", "round_sessions", "search_rounds"}
                  \cup (IF validation # NoValidation THEN {"validation"} ELSE {})
    IN [r EXCEPT !.pc = "done",
                 !.result = [ToolResult(keys) EXCEPT
                                !.session_id = r.session_id,
                                !.conversation_id = r.conversation_id,
                                !.content = content,
                                !.reflection_log = r.reflection_log,
                                !.round_sessions = r.round_sessions,
                                !.sources_count = r.sources_count,
                                !.search_rounds = r.search_rounds,
                                !.validation = validation]]

\* validation needs strictly more than MinRemaining seconds
ValidationGate_at_slack(remaining) == remaining >= MinRemaining

ValidationGate(remaining) == remaining > MinRemaining

\* Step 3: the code after the loop, up to the await of _validate or the return
AfterLoop(r, t) ==
    LET remaining == TOTAL_TIMEOUT - (t - r.start_time)
    IN IF r.cross_validate /\ Len(r.all_answers) > 1 /\ ValidationGate(remaining)
       THEN [r EXCEPT !.pc = "validate",
                      !.timeout = Min(remaining, SINGLE_REFLECTION_TIMEOUT)]
       ELSE Finish(r, NoValidation)

BudgetSpent_late(elapsed) == elapsed > TOTAL_TIMEOUT

\* elapsed >= TOTAL_TIMEOUT
BudgetSpent(elapsed) == elapsed >= TOTAL_TIMEOUT

reflect_timeout_full(remaining) == SINGLE_REFLECTION_TIMEOUT

\* min(SINGLE_REFLECTION_TIMEOUT, remaining)
reflect_timeout(remaining) == Min(SINGLE_REFLECTION_TIMEOUT, remaining)

\* the head of `for i in range(max_reflections)`, up to the await of _reflect
LoopTop(r, t) ==
    IF r.i >= r.max_reflections
    THEN AfterLoop(r, t)
    ELSE LET elapsed == t - r.start_time
         IN IF BudgetSpent(elapsed)
            THEN AfterLoop(r, t)
            ELSE [r EXCEPT !.pc = "reflect",
                           !.timeout = reflect_timeout(TOTAL_TIMEOUT - elapsed)]

clamp_none(max_reflections) == max_reflections

\* min(max_reflections, MAX_REFLECTIONS_HARD_LIMIT)
clamp(max_reflections) == Min(max_reflections, MAX_REFLECTIONS_HARD_LIMIT)

\* an awaited call under asyncio.wait_for(call, timeout) that would take d
Completes(d, timeout) == d <= timeout
TimesOut(d, timeout) == d >= timeout

AwaitPcs == {"initial_search", "reflect", "supp_search", "validate", "search"}

\* the history of awaited calls: how many of each kind the handlers started,
\* the sum of the timeouts they were given, and the requests served
NoCalls == [k \in AwaitPcs \cup {"granted", "requests"} |-> 0]

Started(r, t) ==
    IF r.pc \in AwaitPcs
    THEN [calls EXCEPT ![r.pc] = @ + 1, !["granted"] = @ + r.timeout]
    ELSE calls

HandleOrder == <<"h1", "h2", "h3", "h4">>
ConversationIdOrder == <<"a", "b", "c", "d">>

FirstFresh(order, used) ==
    order[CHOOSE i \in 1..Len(order) :
              /\ order[i] \notin used
              /\ \A j \in 1..(i - 1) : order[j] \in used]

\* new_session_id(): a uuid no handle or conversation in use has.  The ids are
\* opaque, so the handlers take the first unused one of a fixed order.
FreshHandles == {FirstFresh(HandleOrder, CacheKeys(cache))}
FreshSessionIds ==
    {FirstFresh(ConversationIdOrder, Keys(sessions) \cup {run.conversation_id})}

\* search_reflect: the configuration check, the engine, and ReflectEngine.run
\* up to the await of the initial search
SearchReflect(grok, max_reflections, cross_validate, tool_config_ok, config_ok) ==
    /\ run.pc = "idle"
    /\ IF ~tool_config_ok
       THEN /\ run' = [run EXCEPT !.pc = "done", !.tool = "search_reflect",
                                  !.result = ConfigError("")]
            /\ UNCHANGED <<sessions, cache>>
       ELSE \E session_id \in FreshHandles, new_id \in FreshSessionIds :
              LET b == execute_search_begin(sessions, cache, "query", "", now,
                                            session_id, new_id, config_ok)
                  r == [NoRun EXCEPT !.tool = "search_reflect",
                                     !.grok = grok,
                                     !.requested = max_reflections,
                                     !.max_reflections = clamp(max_reflections),
                                     !.cross_validate = cross_validate,
                                     !.start_time = now,
                                     !.query = "query",
                                     !.frame = b.frame]
              IN /\ sessions' = b.sessions
                 /\ cache' = b.cache
                 /\ run' = IF ~config_ok
                           THEN IF HasError(b)
                                THEN [r EXCEPT !.pc = "done",
                                               !.initial_outcome = "error",
                                               !.result = ConfigError(session_id)]
                                ELSE LoopTop([r EXCEPT !.initial_outcome = "error",
                                                       !.session_id = session_id,
                                                       !.search_rounds = 1,
                                                       !.all_answers = <<"">>,
                                                       !.round_sessions =
                                                           <<[round |-> 0, query |-> "query",
                                                              session_id |-> session_id]>>],
                                             now)
                           ELSE [r EXCEPT !.pc = "initial_search",
                                          !.timeout = SEARCH_TIMEOUT,
                                          !.appended.user = 1]
    /\ calls' = Started(run', now)
    /\ UNCHANGED <<max_sessions, session_timeout, max_searches, now, ret>>
    /\ UNCHANGED <<max_size, cret, ever_set, streak, recency, oplog>>
    /\ UNCHANGED <<retryVars, splitVars, streamVars, taskVars>>

\* the initial search ends: it timed out, raised, or returned its result
InitialSearchDone(d, ending, all_sources) ==
    /\ run.pc = "initial_search"
    /\ \/ /\ TimesOut(d, run.timeout)
          /\ now' = now + run.timeout
          /\ run' = [run EXCEPT !.pc = "done", !.frame = NoFrame,
                                !.initial_outcome = "timeout",
                                !.result = InitialTimeout]
          /\ UNCHANGED <<sessions, cache>>
       \/ /\ Completes(d, run.timeout)
          /\ ending = "raise"
          /\ now' = now + d
          /\ run' = [run EXCEPT !.pc = "raised", !.frame = NoFrame,
                                !.initial_outcome = "raise"]
          /\ UNCHANGED <<sessions, cache>>
       \/ /\ Completes(d, run.timeout)
          /\ ending = "ok"
          /\ now' = now + d
          /\ LET f == execute_search_finish(sessions, cache, run.frame, now', all_sources)
                 r == [run EXCEPT
                          !.frame = NoFrame,
                          !.session_id = run.frame.session_id,
                          !.conversation_id = run.frame.conversation_id,
                          !.sources_count = Len(all_sources),
                          !.search_rounds = 1,
                          !.all_answers = <<run.frame.session_id>>,
                          !.round_sessions = <<[round |-> 0, query |-> run.query,
                                                session_id |-> run.frame.session_id]>>,
                          !.i = 0,
                          !.initial_outcome = "ok",
                          !.appended.assistant = 1]
             IN /\ sessions' = f.sessions
                /\ cache' = f.cache
                /\ run' = LoopTop(r, now')
    /\ calls' = Started(run', now')
    /\ UNCHANGED <<max_sessions, session_timeout, max_searches, ret>>
    /\ UNCHANGED <<max_size, cret, ever_set, streak, recency, oplog>>
    /\ UNCHANGED <<retryVars, splitVars, streamVars, taskVars>>

LogEntry_from_zero(round, gap, supplementary_query) ==
    [round |-> round - 1, gap |-> gap, supplementary_query |-> supplementary_query]

\* an entry of reflection_log
LogEntry(round, gap, supplementary_query) ==
    [round |-> round, gap |-> gap, supplementary_query |-> supplementary_query]

\* except asyncio.TimeoutError: break / except Exception: break
on_search_exception_propagate(r, t) == [r EXCEPT !.pc = "raised", !.frame = NoFrame]

on_search_exception_counted(r, t) ==
    AfterLoop([r EXCEPT !.frame = NoFrame, !.search_rounds = @ + 1], t)

on_search_exception(r, t) == AfterLoop([r EXCEPT !.frame = NoFrame], t)

on_reflect_timeout_silent(r, t) ==
    AfterLoop([r EXCEPT !.seen = @ \cup {"reflect_timeout"}], t)

\* except asyncio.TimeoutError around _reflect: the terminal log entry, break
on_reflect_timeout(r, t) ==
    AfterLoop([r EXCEPT !.reflection_log =
                            Append(@, LogEntry(r.i + 1, ReflectTimeoutGap, None)),
                        !.seen = @ \cup {"reflect_timeout"}],
              t)

\* history: the provider's answer to the reflection prompt names a gap and a query
Heard(reply) ==
    IF reply.kind # "object" THEN {"reply_" \o reply.kind}
    ELSE IF reply.gap # None /\ reply.supplementary_query # None THEN {"reply_gap"}
    ELSE IF reply.gap # None THEN {"reply_gap_only"}
    ELSE IF reply.supplementary_query # None THEN {"reply_query_only"}
    ELSE {"reply_empty"}

\* a reflect call ends: the rest of the loop body, up to the await of the
\* supplementary search
ReflectDone(d, reply, lookup_ok, config_ok) ==
    /\ run.pc = "reflect"
    /\ \/ /\ TimesOut(d, run.timeout)
          /\ now' = now + run.timeout
          /\ run' = on_reflect_timeout(run, now')
          /\ UNCHANGED <<sessions, cache>>
       \/ /\ Completes(d, run.timeout)
          /\ now' = now + d
          /\ LET reflection == reflect(run.grok, reply)
                 remaining == TOTAL_TIMEOUT - (now' - run.start_time)
             IN IF reflection.gap = None \/ reflection.supplementary_query = None
                THEN /\ run' = AfterLoop([run EXCEPT !.reflection_log =
                                            Append(@, LogEntry(run.i + 1, None, None)),
                                                      !.seen = @ \cup Heard(reply) \cup {"no_gap"}],
                                         now')
                     /\ UNCHANGED <<sessions, cache>>
                ELSE LET r == [run EXCEPT !.reflection_log =
                                  Append(@, LogEntry(run.i + 1, reflection.gap,
                                                     reflection.supplementary_query)),
                                           !.seen = @ \cup Heard(reply) \cup {"gap"}]
                     IN IF remaining < MinRemaining
                        THEN /\ run' = AfterLoop(r, now')
                             /\ UNCHANGED <<sessions, cache>>
                        ELSE IF ~lookup_ok
                        THEN /\ run' = on_search_exception(
                                           [r EXCEPT !.seen = @ \cup {"lookup_raise"}], now')
                             /\ UNCHANGED <<sessions, cache>>
                        ELSE \E session_id \in FreshHandles, new_id \in FreshSessionIds :
                               LET got == manager_get(sessions, run.conversation_id, now')
                                   b == execute_search_begin(
                                            got.sessions, cache,
                                            reflection.supplementary_query,
                                            run.conversation_id, now',
                                            session_id, new_id, config_ok)
                               IN /\ sessions' = b.sessions
                                  /\ cache' = b.cache
                                  /\ run' = IF HasError(b)
                                            THEN AfterLoop([r EXCEPT !.seen =
                                                               @ \cup {"search_error"}], now')
                                            ELSE [r EXCEPT
                                                    !.pc = "supp_search",
                                                    !.frame = b.frame,
                                                    !.timeout = Min(SEARCH_TIMEOUT, remaining),
                                                    !.appended.user =
                                                        IF b.frame.conversation_id
                                                             = run.conversation_id
                                                        THEN @ + 1 ELSE @]
    /\ calls' = Started(run', now')
    /\ UNCHANGED <<max_sessions, session_timeout, max_searches, ret>>
    /\ UNCHANGED <<max_size, cret, ever_set, streak, recency, oplog>>
    /\ UNCHANGED <<retryVars, splitVars, streamVars, taskVars>>

\* a supplementary search ends: the rest of the loop body and the next head
SuppSearchDone(d, ending, all_sources) ==
    /\ run.pc = "supp_search"
    /\ \/ /\ TimesOut(d, run.timeout)
          /\ now' = now + run.timeout
          /\ run' = on_search_exception(
                        [run EXCEPT !.seen = @ \cup {"search_timeout"}], now')
          /\ UNCHANGED <<sessions, cache>>
       \/ /\ Completes(d, run.timeout)
          /\ ending = "raise"
          /\ now' = now + d
          /\ run' = on_search_exception(
                        [run EXCEPT !.seen = @ \cup {"search_raise"}], now')
          /\ UNCHANGED <<sessions, cache>>
       \/ /\ Completes(d, run.timeout)
          /\ ending = "ok"
          /\ now' = now + d
          /\ LET f == execute_search_finish(sessions, cache, run.frame, now', all_sources)
                 r == [run EXCEPT
                          !.frame = NoFrame,
                          !.sources_count = @ + Len(all_sources),
                          !.search_rounds = @ + 1,
                          !.all_answers = Append(@, run.frame.session_id),
                          !.round_sessions =
                              Append(@, [round |-> run.i + 1, query |-> run.frame.query,
                                         session_id |-> run.frame.session_id]),
                          !.i = @ + 1,
                          !.appended.assistant =
                              IF run.frame.conversation_id = run.conversation_id
                              THEN @ + 1 ELSE @]
             IN /\ sessions' = f.sessions
                /\ cache' = f.cache
                /\ run' = LoopTop(r, now')
    /\ calls' = Started(run', now')
    /\ UNCHANGED <<max_sessions, session_timeout, max_searches, ret>>
    /\ UNCHANGED <<max_size, cret, ever_set, streak, recency, oplog>>
    /\ UNCHANGED <<retryVars, splitVars, streamVars, taskVars>>

\* the validation call ends
ValidateDone(d, reply) ==
    /\ run.pc = "validate"
    /\ \/ /\ TimesOut(d, run.timeout)
          /\ now' = now + run.timeout
          /\ run' = Finish([run EXCEPT !.seen = @ \cup {"validate_timeout"}],
                           ValidationTimedOut)
       \/ /\ Completes(d, run.timeout)
          /\ now' = now + d
          /\ run' = Finish(run, validate(run.grok, reply))
    /\ calls' = Started(run', now')
    /\ UNCHANGED <<sessions, max_sessions, session_timeout, max_searches, ret>>
    /\ UNCHANGED cacheVars
    /\ UNCHANGED <<retryVars, splitVars, streamVars, taskVars>>

NextReflect ==
    \/ \E grok \in Providers, n \in RequestedReflections, cv \in BOOLEAN,
          tc \in BOOLEAN, c \in BOOLEAN : SearchReflect(grok, n, cv, tc, c)
    \/ \E d \in Durations, o \in {"ok", "raise"}, s \in SearchSources :
          InitialSearchDone(d, o, s)
    \/ \E d \in Durations, reply \in Replies, l \in BOOLEAN, c \in BOOLEAN :
          ReflectDone(d, reply, l, c)
    \/ \E d \in Durations, o \in {"ok", "raise"}, s \in SearchSources :
          SuppSearchDone(d, o, s)
    \/ \E d \in Durations, reply \in ValidationReplies : ValidateDone(d, reply)

(***************************************************************************)
(* web_search and search_followup                                          *)
(***************************************************************************)
\* the requests one process serves before the model stops
MaxRequests == 3

\* the error dict of search_followup
SessionExpired(conversation_id) ==
    [ToolResult(SearchKeys \cup {"error", "message"})
        EXCEPT !.error = "session_expired", !.conversation_id = conversation_id]

\* the dict _execute_search returns
SearchResult(frame, all_sources) ==
    [ToolResult(SearchKeys)
        EXCEPT !.session_id = frame.session_id,
               !.conversation_id = frame.conversation_id,
               !.content = <<[round |-> 0, gap |-> None, answer |-> frame.session_id]>>,
               !.sources_count = Len(all_sources)]

\* a tool enters _execute_search: the call runs up to the await of the providers
StartSearch(tool, d, conversation_id, config_ok) ==
    \E session_id \in FreshHandles, new_id \in FreshSessionIds :
        LET b == execute_search_begin(d, cache, "query", conversation_id, now,
                                      session_id, new_id, config_ok)
            r == [NoRun EXCEPT !.tool = tool, !.start_time = now, !.query = "query",
                               !.conversation_id = conversation_id,
                               !.frame = b.frame]
        IN /\ sessions' = b.sessions
           /\ cache' = b.cache
           /\ run' = IF HasError(b)
                     THEN [r EXCEPT !.pc = "done", !.result = ConfigError(session_id)]
                     ELSE [r EXCEPT !.pc = "search"]

\* web_search
WebSearch(config_ok) ==
    /\ run.pc = "idle"
    /\ calls["requests"] < MaxRequests
    /\ StartSearch("web_search", sessions, "", config_ok)
    /\ calls' = [Started(run', now) EXCEPT !["requests"] = @ + 1]
    /\ UNCHANGED <<max_sessions, session_timeout, max_searches, now, ret>>
    /\ UNCHANGED <<max_size, cret, ever_set, streak, recency, oplog>>
    /\ UNCHANGED <<retryVars, splitVars, streamVars, taskVars>>

followup_found_always(conv_session) == TRUE

\* `if conv_session is None` of search_followup, negated
followup_found(conv_session) == conv_session # None

\* search_followup: the lookup, then _execute_search up to the await of the
\* providers
SearchFollowup(conversation_id, config_ok) ==
    /\ run.pc = "idle"
    /\ calls["requests"] < MaxRequests
    /\ LET got == manager_get(sessions, conversation_id, now)
       IN IF ~followup_found(got.returned)
          THEN /\ sessions' = got.sessions
               /\ cache' = cache
               /\ run' = [NoRun EXCEPT
                            !.pc = "done", !.tool = "search_followup",
                            !.start_time = now,
                            !.conversation_id = conversation_id,
                            !.result = SessionExpired(conversation_id),
                            !.seen = IF conversation_id \in Keys(sessions)
                                     THEN {"dead"} ELSE {"absent"}]
          ELSE StartSearch("search_followup", got.sessions, conversation_id, config_ok)
    /\ calls' = [Started(run', now) EXCEPT !["requests"] = @ + 1]
    /\ UNCHANGED <<max_sessions, session_timeout, max_searches, now, ret>>
    /\ UNCHANGED <<max_size, cret, ever_set, streak, recency, oplog>>
    /\ UNCHANGED <<retryVars, splitVars, streamVars, taskVars>>

\* the providers answered: the rest of _execute_search
SearchDone(d, all_sources) ==
    /\ run.pc = "search"
    /\ now' = now + d
    /\ LET f == execute_search_finish(sessions, cache, run.frame, now', all_sources)
       IN /\ sessions' = f.sessions
          /\ cache' = f.cache
          /\ run' = [run EXCEPT !.pc = "done", !.frame = NoFrame,
                                !.session_id = run.frame.session_id,
                                !.conversation_id = run.frame.conversation_id,
                                !.result = SearchResult(run.frame, all_sources)]
    /\ UNCHANGED calls
    /\ UNCHANGED <<max_sessions, session_timeout, max_searches, ret>>
    /\ UNCHANGED <<max_size, cret, ever_set, streak, recency, oplog>>
    /\ UNCHANGED <<retryVars, splitVars, streamVars, taskVars>>

\* the result went to the client; d seconds pass until the next request
Return(d) ==
    /\ run.pc = "done"
    /\ run.tool \in {"web_search", "search_followup"}
    /\ run' = NoRun
    /\ now' = now + d
    /\ UNCHANGED calls
    /\ UNCHANGED <<sessions, max_sessions, session_timeout, max_searches, ret>>
    /\ UNCHANGED cacheVars
    /\ UNCHANGED <<retryVars, splitVars, streamVars, taskVars>>

NextSearch ==
    \/ \E c \in BOOLEAN : WebSearch(c)
    \/ \E i \in 1..Len(ConversationIdOrder), c \in BOOLEAN :
          SearchFollowup(ConversationIdOrder[i], c)
    \/ \E d \in Durations, s \in SearchSources : SearchDone(d, s)
    \/ \E d \in Durations : Return(d)

(***************************************************************************)
(* _execute_search: the provider calls joined by asyncio.gather            *)
(***************************************************************************)
\* the extra_sources a caller asks for, and the sources each provider finds
ExtraSources == 0..3
GrokUrls == <<"u1", "u2">>
TavilyUrls == <<"u2", "u3">>
FirecrawlUrls == <<"u3", "u4">>

\* how a provider call ends: with its sources, or with an exception
ProviderOutcomes(p) ==
    {[raised |-> TRUE, urls |-> <<>>],
     [raised |-> FALSE,
      urls |-> IF p = "grok" THEN GrokUrls
               ELSE IF p = "tavily" THEN TavilyUrls ELSE FirecrawlUrls]}

\* the quota of the two extra providers
extra_counts(extra_sources, has_tavily, has_firecrawl) ==
    IF extra_sources > 0 /\ has_firecrawl /\ has_tavily
    THEN [firecrawl |-> extra_sources \div 2,
          tavily |-> extra_sources - (extra_sources \div 2)]
    ELSE IF extra_sources > 0 /\ has_firecrawl
    THEN [firecrawl |-> extra_sources, tavily |-> 0]
    ELSE IF extra_sources > 0 /\ has_tavily
    THEN [firecrawl |-> 0, tavily |-> extra_sources]
    ELSE [firecrawl |-> 0, tavily |-> 0]

\* the coroutines handed to asyncio.gather
coros(counts) ==
    {"grok"} \cup (IF counts.tavily > 0 THEN {"tavily"} ELSE {})
             \cup (IF counts.firecrawl > 0 THEN {"firecrawl"} ELSE {})

safe_call_unguarded(ended) == [raised |-> ended.raised, urls |-> ended.urls]

\* _safe_grok, _safe_tavily, _safe_firecrawl: `except Exception` turns a
\* failure into "" or None, which yield no sources
safe_call(ended) ==
    IF ended.raised THEN [raised |-> FALSE, urls |-> <<>>]
    ELSE [raised |-> FALSE, urls |-> ended.urls]

\* `if url in seen: continue` over a list of URLs
RECURSIVE unique(_, _)
unique(merged, urls) ==
    IF urls = <<>> THEN merged
    ELSE unique(IF \E i \in 1..Len(merged) : merged[i] = Head(urls)
                THEN merged ELSE Append(merged, Head(urls)),
                Tail(urls))

\* _extra_results_to_sources: firecrawl first, then tavily
extra_results_to_sources(tavily_results, firecrawl_results) ==
    unique(unique(<<>>, firecrawl_results), tavily_results)

\* merge_sources(grok_sources, extra)
merge_sources(grok_sources, extra) == unique(unique(<<>>, grok_sources), extra)

\* _execute_search(query, extra_sources=...) up to `await asyncio.gather(*coros)`
ExecuteSearch(extra_sources, has_tavily, has_firecrawl) ==
    /\ run.pc = "idle"
    /\ \E session_id \in FreshHandles, new_id \in FreshSessionIds :
          LET b == execute_search_begin(sessions, cache, "query", "", now,
                                        session_id, new_id, TRUE)
              counts == extra_counts(extra_sources, has_tavily, has_firecrawl)
          IN /\ sessions' = b.sessions
             /\ cache' = b.cache
             /\ run' = [NoRun EXCEPT !.pc = "gather", !.tool = "web_search",
                                     !.start_time = now, !.query = "query",
                                     !.frame = b.frame,
                                     !.gather = [NoGather EXCEPT
                                                   !.pending = coros(counts),
                                                   !.awaited = coros(counts)]]
    /\ UNCHANGED calls
    /\ UNCHANGED <<max_sessions, session_timeout, max_searches, now, ret>>
    /\ UNCHANGED <<max_size, cret, ever_set, streak, recency, oplog>>
    /\ UNCHANGED <<retryVars, splitVars, streamVars, taskVars>>

\* one of the gathered coroutines ends
ProviderDone(p, ended) ==
    /\ run.pc = "gather"
    /\ p \in run.gather.pending
    /\ LET got == safe_call(ended)
       IN run' = [run EXCEPT
                    !.gather = [@ EXCEPT
                                  !.pending = @ \ {p},
                                  !.raised = @ \/ got.raised,
                                  ![p] = got.urls,
                                  !.succeeded = IF ended.raised THEN @ ELSE @ \cup {p},
                                  !.failed = IF ended.raised THEN @ \cup {p} ELSE @]]
    /\ UNCHANGED calls
    /\ UNCHANGED convVars
    /\ UNCHANGED cacheVars
    /\ UNCHANGED <<retryVars, splitVars, streamVars, taskVars>>

\* asyncio.gather returns, or raises the first exception of its coroutines:
\* the rest of _execute_search
Joined ==
    /\ run.pc = "gather"
    /\ run.gather.pending = {}
    /\ IF run.gather.raised
       THEN /\ run' = [run EXCEPT !.pc = "raised", !.frame = NoFrame]
            /\ UNCHANGED <<sessions, cache>>
       ELSE LET extra == extra_results_to_sources(run.gather.tavily, run.gather.firecrawl)
                all_sources == merge_sources(run.gather.grok, extra)
                f == execute_search_finish(sessions, cache, run.frame, now, all_sources)
            IN /\ sessions' = f.sessions
               /\ cache' = f.cache
               /\ run' = [run EXCEPT !.pc = "done", !.frame = NoFrame,
                                     !.session_id = run.frame.session_id,
                                     !.conversation_id = run.frame.conversation_id,
                                     !.result = SearchResult(run.frame, all_sources)]
    /\ UNCHANGED calls
    /\ UNCHANGED <<max_sessions, session_timeout, max_searches, now, ret>>
    /\ UNCHANGED <<max_size, cret, ever_set, streak, recency, oplog>>
    /\ UNCHANGED <<retryVars, splitVars, streamVars, taskVars>>

NextGather ==
    \/ \E n \in ExtraSources, t \in BOOLEAN, f \in BOOLEAN : ExecuteSearch(n, t, f)
    \/ \E p \in {"grok", "tavily", "firecrawl"} :
          \E o \in ProviderOutcomes(p) : ProviderDone(p, o)
    \/ Joined

(***************************************************************************)
(* sources.py: split_answer_and_sources.                                   *)
(*                                                                         *)
(* A text is a sequence of tokens: the pieces the patterns of sources.py   *)
(* and utils.py tell apart.  Tokens of one line are separated by single    *)
(* spaces; NL is a line break, the only white space that is a token.       *)
(***************************************************************************)
NL == [k |-> "nl"]
\* prose without URL, bracket or keyword
W(s) == [k |-> "word", s |-> s]
\* "#" to "######"
HASH == [k |-> "hash"]
\* a word of the sources vocabulary
KW(s) == [k |-> "kw", s |-> s]
COLON == [k |-> "colon"]
\* "-", "*" or "1." at the start of a line
BUL == [k |-> "bullet"]
LP == [k |-> "("]
RP == [k |-> ")"]
\* "<details>" and "</details>"
DO == [k |-> "details_open"]
DC == [k |-> "details_close"]
\* "<think>" and "</think>"
TO == [k |-> "think_open"]
TC == [k |-> "think_close"]
\* a maximal match of _URL_PATTERN; url is the matched string in chunks, so
\* that trailing punctuation is an element of its own
U(url) == [k |-> "url", url |-> url]
\* a match of _MD_LINK_PATTERN: [title](url)
L(title, url) == [k |-> "link", title |-> title, url |-> url]

\* the alternatives of _SOURCES_HEADING_PATTERN and _SOURCES_FUNCTION_PATTERN
\* that occur in the texts
HeadingWords == {"Sources", "References"}
FunctionWords == {"Sources", "References", "source_cards"}

IsSpace(x) == x.k = "nl"

RECURSIVE lstrip(_)
lstrip(t) == IF t # <<>> /\ IsSpace(Head(t)) THEN lstrip(Tail(t)) ELSE t

RECURSIVE rstrip(_)
rstrip(t) ==
    IF t # <<>> /\ IsSpace(t[Len(t)]) THEN rstrip(SubSeq(t, 1, Len(t) - 1)) ELSE t

\* str.strip()
strip(t) == lstrip(rstrip(t))

\* text[:i] and text[i:] with i counted in tokens from 1
Before(t, i) == SubSeq(t, 1, i - 1)
From(t, i) == SubSeq(t, i, Len(t))

\* str.splitlines(): a final line break opens no further line
RECURSIVE splitlines(_)
splitlines(t) ==
    IF t = <<>> THEN <<>>
    ELSE IF \E i \in 1..Len(t) : IsSpace(t[i])
         THEN LET i == CHOOSE i \in 1..Len(t) :
                           IsSpace(t[i]) /\ \A j \in 1..(i - 1) : ~IsSpace(t[j])
              IN <<Before(t, i)>> \o splitlines(From(t, i + 1))
         ELSE <<t>>

\* "\n".join(lines)
RECURSIVE join(_)
join(lines) ==
    IF lines = <<>> THEN <<>>
    ELSE IF Len(lines) = 1 THEN lines[1]
    ELSE lines[1] \o <<NL>> \o join(Tail(lines))

(***************************************************************************)
(* utils.extract_unique_urls and _extract_sources_from_text                *)
(***************************************************************************)
Punctuation == {".", ",", ";", ":", "!", "?"}

\* url.rstrip('.,;:!?')
RECURSIVE rstrip_punctuation(_)
rstrip_punctuation(url) ==
    IF url # <<>> /\ url[Len(url)] \in Punctuation
    THEN rstrip_punctuation(SubSeq(url, 1, Len(url) - 1))
    ELSE url

SourceUrls(sources) == {sources[i].url : i \in 1..Len(sources)}

\* `if url in seen: continue; seen.add(url); sources.append(item)` over items
RECURSIVE append_unseen(_, _)
append_unseen(sources, items) ==
    IF items = <<>> THEN sources
    ELSE append_unseen(IF Head(items).url \in SourceUrls(sources)
                       THEN sources ELSE Append(sources, Head(items)),
                       Tail(items))

\* the matches of _URL_PATTERN in the text, in order: the bare URLs and the
\* URL inside each Markdown link
url_matches(t) == SelectSeq(t, LAMBDA x : x.k \in {"url", "link"})

extract_unique_urls_unstripped(t) ==
    LET m == url_matches(t)
        found == append_unseen(<<>>, [i \in 1..Len(m) |-> [url |-> m[i].url]])
    IN [i \in 1..Len(found) |-> found[i].url]

\* utils.extract_unique_urls
extract_unique_urls(t) ==
    LET m == url_matches(t)
        found == append_unseen(<<>>, [i \in 1..Len(m) |->
                                         [url |-> rstrip_punctuation(m[i].url)]])
    IN [i \in 1..Len(found) |-> found[i].url]

\* _extract_sources_from_text: the Markdown links with their titles, then the
\* URLs not seen among them
extract_sources_from_text(t) ==
    LET links == SelectSeq(t, LAMBDA x : x.k = "link")
        titled == append_unseen(<<>>, [i \in 1..Len(links) |->
                                          [title |-> links[i].title,
                                           url |-> links[i].url]])
        urls == extract_unique_urls(t)
    IN append_unseen(titled, [i \in 1..Len(urls) |-> [url |-> urls[i]]])

(***************************************************************************)
(* The strategies of split_answer_and_sources                              *)
(***************************************************************************)
\* what a strategy returns: None, or (answer, sources)
NoMatch == [found |-> FALSE, answer |-> <<>>, sources |-> <<>>]
Match(answer, sources) == [found |-> TRUE, answer |-> answer, sources |-> sources]

AtLineStart(t, i) == i = 1 \/ IsSpace(t[i - 1])

\* the first index from i on that holds no white space (Len(t) + 1 if none)
RECURSIVE SkipSpace(_, _)
SkipSpace(t, i) ==
    IF i <= Len(t) /\ IsSpace(t[i]) THEN SkipSpace(t, i + 1) ELSE i

\* the tokens from i to the end of i's line
RestOfLine(t, i) ==
    LET r == From(t, i)
    IN IF \E j \in 1..Len(r) : IsSpace(r[j])
       THEN Before(r, CHOOSE j \in 1..Len(r) :
                          IsSpace(r[j]) /\ \A n \in 1..(j - 1) : ~IsSpace(r[n]))
       ELSE r

LastOf(S) == CHOOSE x \in S : \A y \in S : y <= x

\* _extract_leading_think: a <think>...</think> block at the very start
extract_leading_think(t) ==
    IF /\ t # <<>>
       /\ t[1].k = "think_open"
       /\ \E i \in 1..Len(t) : t[i].k = "think_close"
    THEN LET i == CHOOSE i \in 1..Len(t) :
                      /\ t[i].k = "think_close"
                      /\ \A j \in 1..(i - 1) : t[j].k # "think_close"
         IN [think_prefix |-> strip(Before(t, i + 1)),
             content |-> lstrip(From(t, i + 1))]
    ELSE [think_prefix |-> <<>>, content |-> t]

\* _rebuild_answer_with_think: the answer returned
rebuild_answer_with_think(think_prefix, answer) ==
    LET a == strip(answer)
    IN IF think_prefix = <<>> THEN a
       ELSE IF a # <<>> THEN think_prefix \o <<NL, NL>> \o a
       ELSE think_prefix

\* _parse_sources_payload for the payloads the tokens can spell: text that is
\* neither JSON nor a Python literal, so json.loads and ast.literal_eval raise
parse_sources_payload(payload) ==
    IF strip(payload) = <<>> THEN <<>>
    ELSE extract_sources_from_text(strip(payload))

\* the index of the parenthesis that closes the one opened before idx, 0 if
\* none (the parentheses of a Markdown link open and close inside its token)
RECURSIVE closing_paren(_, _, _)
closing_paren(t, idx, depth) ==
    IF idx > Len(t) THEN 0
    ELSE IF t[idx].k = "(" THEN closing_paren(t, idx + 1, depth + 1)
    ELSE IF t[idx].k = ")"
         THEN IF depth = 1 THEN idx ELSE closing_paren(t, idx + 1, depth - 1)
    ELSE closing_paren(t, idx + 1, depth)

\* _extract_balanced_call_at_end, then _parse_sources_payload: the sources of
\* the call opened at open_paren_idx, <<>> if it is not the end of the text
call_sources(t, open_paren_idx) ==
    LET close_paren_idx == closing_paren(t, open_paren_idx + 1, 1)
    IN IF close_paren_idx = 0 \/ strip(From(t, close_paren_idx + 1)) # <<>>
       THEN <<>>
       ELSE parse_sources_payload(SubSeq(t, open_paren_idx + 1, close_paren_idx - 1))

\* the matches of _SOURCES_FUNCTION_PATTERN, each by the index of its word
function_matches(t) ==
    {i \in 1..Len(t) :
        /\ t[i].k = "kw" /\ t[i].s \in FunctionWords
        /\ AtLineStart(t, i)
        /\ SkipSpace(t, i + 1) <= Len(t)
        /\ t[SkipSpace(t, i + 1)].k = "("}

\* _split_function_call_sources
split_function_call_sources(t) ==
    LET good == {i \in function_matches(t) :
                    call_sources(t, SkipSpace(t, i + 1)) # <<>>}
    IN IF good = {} THEN NoMatch
       ELSE LET m == LastOf(good)
            IN Match(rstrip(Before(t, m)), call_sources(t, SkipSpace(t, m + 1)))

\* the tokens after the word of a heading, up to the end of the line: nothing,
\* a parenthesised remark, a colon, or both
HeadingTail(r) ==
    LET remark(n) == /\ n >= 2 /\ n <= Len(r)
                     /\ r[1].k = "(" /\ r[n].k = ")"
                     /\ \A j \in 2..(n - 1) : r[j].k \notin {")", "link"}
    IN \/ r = <<>>
       \/ r = <<COLON>>
       \/ remark(Len(r))
       \/ Len(r) >= 3 /\ r[Len(r)] = COLON /\ remark(Len(r) - 1)

\* the word of the heading pattern sits at i, and its line ends as a heading
HeadingWordAt(t, i) ==
    /\ i <= Len(t)
    /\ t[i].k = "kw" /\ t[i].s \in HeadingWords
    /\ HeadingTail(RestOfLine(t, i + 1))

\* the matches of _SOURCES_HEADING_PATTERN, each by its start: the "#"s (white
\* space, line breaks included, may follow them) or the word itself
heading_matches(t) ==
    {i \in 1..Len(t) :
        /\ AtLineStart(t, i)
        /\ \/ t[i].k = "hash" /\ HeadingWordAt(t, SkipSpace(t, i + 1))
           \/ /\ HeadingWordAt(t, i)
              /\ ~\E h \in 1..(i - 1) :
                     /\ t[h].k = "hash" /\ AtLineStart(t, h)
                     /\ SkipSpace(t, h + 1) = i}

split_heading_sources_keep_mark(t) ==
    LET good == {i \in heading_matches(t) : extract_sources_from_text(From(t, i)) # <<>>}
    IN IF good = {} THEN NoMatch
       ELSE LET start == LastOf(good)
            IN Match(rstrip(Before(t, start + 1)), extract_sources_from_text(From(t, start)))

\* _split_heading_sources
split_heading_sources(t) ==
    LET good == {i \in heading_matches(t) : extract_sources_from_text(From(t, i)) # <<>>}
    IN IF good = {} THEN NoMatch
       ELSE LET start == LastOf(good)
            IN Match(rstrip(Before(t, start)), extract_sources_from_text(From(t, start)))

\* _split_details_block_sources
split_details_block_sources(t) ==
    LET closes == {i \in 1..Len(t) : t[i].k = "details_close"}
    IN IF closes = {} THEN NoMatch
       ELSE LET close_idx == LastOf(closes)
                opens == {i \in 1..(close_idx - 1) : t[i].k = "details_open"}
            IN IF strip(From(t, close_idx + 1)) # <<>> \/ opens = {} THEN NoMatch
               ELSE LET open_idx == LastOf(opens)
                        sources == extract_sources_from_text(SubSeq(t, open_idx, close_idx))
                    IN IF Len(sources) < 2 THEN NoMatch
                       ELSE Match(rstrip(Before(t, open_idx)), sources)

\* _is_link_only_line
is_link_only_line(line) ==
    LET stripped == IF line # <<>> /\ line[1].k = "bullet" THEN Tail(line) ELSE line
    IN IF stripped = <<>> THEN FALSE
       ELSE IF stripped[1].k = "url" THEN TRUE
       ELSE \E j \in 1..Len(stripped) : stripped[j].k = "link"

\* `while idx >= 0 and not lines[idx].strip(): idx -= 1`
RECURSIVE last_nonblank(_, _)
last_nonblank(lines, idx) ==
    IF idx >= 1 /\ lines[idx] = <<>> THEN last_nonblank(lines, idx - 1) ELSE idx

\* the second while loop of _split_tail_link_block
RECURSIVE tail_scan(_, _, _)
tail_scan(lines, idx, link_like_count) ==
    IF idx < 1 THEN [idx |-> idx, link_like_count |-> link_like_count]
    ELSE IF lines[idx] = <<>> THEN tail_scan(lines, idx - 1, link_like_count)
    ELSE IF ~is_link_only_line(lines[idx])
         THEN [idx |-> idx, link_like_count |-> link_like_count]
    ELSE tail_scan(lines, idx - 1, link_like_count + 1)

\* _split_tail_link_block
split_tail_link_block(t) ==
    LET lines == splitlines(t)
        tail_end == last_nonblank(lines, Len(lines))
    IN IF lines = <<>> \/ tail_end < 1 THEN NoMatch
       ELSE LET scan == tail_scan(lines, tail_end, 0)
                tail_start == scan.idx + 1
                sources == extract_sources_from_text(
                               join(SubSeq(lines, tail_start, tail_end)))
            IN IF scan.link_like_count < 2 \/ sources = <<>> THEN NoMatch
               ELSE Match(rstrip(join(SubSeq(lines, 1, tail_start - 1))), sources)

\* the returned tuple; `by` is history: the branch that returned
SplitResult(answer, sources, by) == [answer |-> answer, sources |-> sources, by |-> by]

NoSplit == SplitResult(<<>>, <<>>, "none")

\* split_answer_and_sources
split_answer_and_sources(t) ==
    LET raw == strip(t)
        e == extract_leading_think(raw)
        content == e.content
        rebuilt(s, by) ==
            SplitResult(rebuild_answer_with_think(e.think_prefix, s.answer), s.sources, by)
        f == split_function_call_sources(content)
        h == split_heading_sources(content)
        d == split_details_block_sources(content)
        l == split_tail_link_block(content)
    IN IF raw = <<>> THEN SplitResult(<<>>, <<>>, "empty")
       ELSE IF e.think_prefix # <<>> /\ content = <<>>
       THEN SplitResult(e.think_prefix, <<>>, "think")
       ELSE IF f.found THEN rebuilt(f, "function_call")
       ELSE IF h.found THEN rebuilt(h, "heading")
       ELSE IF d.found THEN rebuilt(d, "details")
       ELSE IF l.found THEN rebuilt(l, "tail_links")
       ELSE rebuilt(Match(content, extract_sources_from_text(content)), "fallback")

(***************************************************************************)
(* The texts split_answer_and_sources is called with                       *)
(***************************************************************************)
UrlA == <<"https://a.com">>
UrlB == <<"https://b.com">>

\* the lines a text is made of
LineChoices ==
    { <<>>,
      <<W("conclusion")>>,
      <<HASH, KW("Sources")>>,
      <<KW("References"), COLON>>,
      <<BUL, L("A", UrlA)>>,
      <<BUL, L("B", UrlB)>>,
      <<W("read"), L("A", UrlA), W("first")>>,
      <<W("then"), L("B", UrlB)>>,
      <<W("see"), U(UrlA), W("and"), U(UrlB \o <<".">>)>>,
      <<W("more"), U(UrlB)>>,
      <<U(UrlA)>>,
      <<TO, W("plan"), U(UrlA), TC>>,
      <<DO>>,
      <<DC>>,
      <<KW("Sources"), LP, U(UrlA), L("B", UrlB), RP>> }

\* the longest text, in lines
MaxLines == 3

\* "conclusion", a blank line, "## Sources", "- [A](https://a.com)",
\* "- [B](https://b.com)"
HeadingExample ==
    join(<< <<W("conclusion")>>, <<>>, <<HASH, KW("Sources")>>,
            <<BUL, L("A", UrlA)>>, <<BUL, L("B", UrlB)>> >>)

SplitTexts ==
    {HeadingExample}
      \cup {join(ls) : ls \in UNION {[1..n -> LineChoices] : n \in 1..MaxLines}}

\* one call of split_answer_and_sources(text)
SplitAnswerAndSources ==
    /\ split = NoSplit
    /\ split' = split_answer_and_sources(text)
    /\ UNCHANGED text
    /\ UNCHANGED <<convVars, cacheVars, retryVars, serverVars, streamVars, taskVars>>

NextSplit == SplitAnswerAndSources

(***************************************************************************)
(* providers/grok.py: GrokSearchProvider._parse_streaming_response.        *)
(* A line is its "data:" prefix, if any, and the text after it; a text is  *)
(* known by what json.loads makes of it.  A content is "absent" (no such   *)
(* key), "null", the empty string or a one-letter string.                  *)
(***************************************************************************)
\* json.loads results: JSONDecodeError, a list, a number, a dict
JBad == [t |-> "bad", choices |-> <<>>]
JArray == [t |-> "array", choices |-> <<>>]
JNumber == [t |-> "number", choices |-> <<>>]
JObject(choices) == [t |-> "object", choices |-> choices]

\* {"choices": [{"delta": {"content": c}}]} and {"choices": [{"message": {"content": c}}]}
Delta(c) == JObject(<<[delta |-> c, message |-> "absent"]>>)
MessageBody(c) == JObject(<<[delta |-> "absent", message |-> c]>>)

\* the lines of a response
Line(prefix, frag, value) == [data |-> prefix, frag |-> frag, value |-> value]
BlankLine == Line("", "blank", JBad)
DoneLine(prefix) == Line(prefix, "done", JBad)
DataLine(prefix, value) == Line(prefix, "whole", value)
PlainLine(value) == Line("", "whole", value)
HeadLine == Line("", "head", JBad)     \* {"choices": [{"message":
TailLine == Line("", "tail", JBad)     \* {"content": "m"}}]}

StreamLines ==
    { BlankLine,
      DoneLine("data: "), DoneLine("data:"),
      DataLine("data: ", Delta("a")), DataLine("data:", Delta("b")),
      DataLine("data: ", Delta("")),
      DataLine("data: ", Delta("absent")),       \* data: {"choices":[{"delta":{"role":"assistant"}}]}
      DataLine("data: ", Delta("null")),         \* data: {"choices":[{"delta":{"content":null}}]}
      DataLine("data: ", JObject(<<>>)),         \* data: {"choices":[]}
      DataLine("data: ", JBad),                  \* data: {"choices":
      DataLine("data: ", JArray),                \* data: []
      PlainLine(JBad),                           \* : keep-alive
      PlainLine(MessageBody("m")),               \* {"choices":[{"message":{"content":"m"}}]}
      PlainLine(MessageBody("null")),
      PlainLine(JObject(<<>>)),                  \* {"error": "overloaded"}
      PlainLine(JNumber),                        \* 5
      HeadLine, TailLine }

\* the longest response, in lines
MaxBodyLines == 3

Responses == UNION {[1..n -> StreamLines] : n \in 0..MaxBodyLines}

\* line.strip() is empty
IsBlankLine(line) == line.frag = "blank"

\* line.startswith("data:")
StartsWithData(line) == line.data # ""

\* line in ("data: [DONE]", "data:[DONE]")
IsDone(line) == StartsWithData(line) /\ line.frag = "done"

\* json.loads(line[5:].lstrip())
json_loads_line(line) == IF line.frag = "whole" THEN line.value ELSE JBad

\* json.loads("".join(full_body_buffer))
json_loads_joined(full_body_buffer) ==
    IF Len(full_body_buffer) = 1 /\ ~StartsWithData(full_body_buffer[1])
    THEN json_loads_line(full_body_buffer[1])
    ELSE IF full_body_buffer = <<HeadLine, TailLine>> THEN MessageBody("m")
    ELSE JBad

\* a str as the sequence of its characters
Str(c) == IF c = "" THEN <<>> ELSE <<c>>

\* how a call ends: a str, None, or an exception that leaves it
NoParse == [done |-> FALSE, kind |-> "", content |-> <<>>]
Returned(content) == [done |-> TRUE, kind |-> "str", content |-> content]
ReturnedNone == [done |-> TRUE, kind |-> "None", content |-> <<>>]
ParseRaised(exception) == [done |-> TRUE, kind |-> exception, content |-> <<>>]

\* the loop's locals
Locals(content, full_body_buffer, exception) ==
    [content |-> content, full_body_buffer |-> full_body_buffer, exception |-> exception]

\* the body of the try for one data line: `except (json.JSONDecodeError, IndexError)`
on_data_line(st, line) ==
    LET data == json_loads_line(line)
    IN IF data.t = "bad" THEN st                                      \* JSONDecodeError: continue
       ELSE IF data.t # "object"
       THEN [st EXCEPT !.exception = "AttributeError"]                \* data.get
       ELSE IF data.choices = <<>> THEN st
       ELSE LET delta == data.choices[1].delta
            IN IF delta = "absent" THEN st
               ELSE IF delta = "null"
               THEN [st EXCEPT !.exception = "TypeError"]             \* content += None
               ELSE [st EXCEPT !.content = @ \o Str(delta)]

\* `async for line in response.aiter_lines()` from line i on
RECURSIVE consume(_, _, _)
consume(lines, i, st) ==
    IF i > Len(lines) \/ st.exception # "" THEN st
    ELSE LET line == lines[i]
         IN IF IsBlankLine(line) THEN consume(lines, i + 1, st)
            ELSE LET buffered == [st EXCEPT !.full_body_buffer = Append(@, line)]
                 IN IF ~StartsWithData(line) \/ IsDone(line)
                    THEN consume(lines, i + 1, buffered)
                    ELSE consume(lines, i + 1, on_data_line(buffered, line))

\* `if not content and full_body_buffer:` and its body
fallback(st) ==
    LET data == json_loads_joined(st.full_body_buffer)
    IN IF data.t = "bad" THEN Returned(<<>>)                          \* except json.JSONDecodeError: pass
       ELSE IF data.t = "number" THEN ParseRaised("TypeError")       \* "choices" in 5
       ELSE IF data.t = "array" \/ data.choices = <<>> THEN Returned(<<>>)
       ELSE LET message == data.choices[1].message
            IN IF message = "absent" THEN Returned(<<>>)
               ELSE IF message = "null" THEN ReturnedNone
               ELSE Returned(Str(message))

parse_streaming_response(lines) ==
    LET st == consume(lines, 1, Locals(<<>>, <<>>, ""))
    IN IF st.exception # "" THEN ParseRaised(st.exception)
       ELSE IF st.content = <<>> /\ st.full_body_buffer # <<>> THEN fallback(st)
       ELSE Returned(st.content)

\* one call of _parse_streaming_response(response)
ParseStreamingResponse ==
    /\ ~parsed.done
    /\ parsed' = parse_streaming_response(response)
    /\ UNCHANGED response
    /\ UNCHANGED <<convVars, cacheVars, retryVars, serverVars, splitVars, taskVars>>

NextStream == ParseStreamingResponse

(***************************************************************************)
(* Concurrent tool requests.  The handlers are coroutines of one asyncio   *)
(* event loop: the running task keeps the loop until it suspends, in the   *)
(* gather of its provider calls or in Lock.acquire of a lock that is       *)
(* taken.  A task's position changes at every lock acquisition and at      *)
(* every suspension; another task runs only while none is running.         *)
(* time.time() is read anew at every call, so the clock may advance        *)
(* between two steps of a running task.                                    *)
(***************************************************************************)
Tasks == {"t1", "t2"}

\* the tool requests served before the model stops
Requests == {"r1", "r2", "r3"}

\* the values of the clock, and the configurations of the store
Clock == 0..2
TaskTimeouts == {1, 3}
TaskMaxTurns == {1, 2}

Least(S) == CHOOSE x \in S : \A y \in S : x <= y

Greatest(S) == CHOOSE x \in S : \A y \in S : x >= y

\* the positions before `async with self._lock`, and the lock each needs
WantsLock == {"followup_get", "reflect_get", "exec_get", "create", "cache_set",
              "cache_get"}

LockOf_manager(pc) == "manager"

\* ConversationManager methods take ConversationManager._lock, SourcesCache
\* methods take SourcesCache._lock
LockOf(pc) == IF pc \in {"cache_set", "cache_get"} THEN "cache" ELSE "manager"

Locked(pc) == pc \o "_locked"

NoSession == [session_id |-> "", messages |-> <<>>, created_at |-> 0,
              last_access |-> 0, search_count |-> 0]

NoAnswer == [kind |-> "none", conversation_id |-> "", session_id |-> ""]

\* the locals of a handler
NoTask ==
    [pc |-> "idle", tool |-> "", conversation_id |-> "", history |-> "",
     conv_session |-> "", session_id |-> "", result |-> NoAnswer,
     \* history: the id that passed search_followup's own lookup and the clock
     \* at that lookup and at the lookup of _execute_search; whether the
     \* session was in the store when the answer was appended; whether the
     \* task had to wait for a lock; the searches of a reflective run
     checked |-> "", checked_at |-> 0, looked_at |-> 0,
     answer_tracked |-> FALSE, waiting |-> FALSE, rounds |-> 0]

NoTasks == [t \in Tasks |-> NoTask]

\* the two locks, the task that has the event loop, and history: the
\* requests begun, the ids and handles given out, every session object ever
\* created, and what the tasks held when they acquired a lock or suspended
NoHeld ==
    [manager |-> "", cache |-> "", running |-> "", requests |-> 0,
     ids |-> {}, handles |-> {},
     heap |-> [id \in {ConversationIdOrder[i] : i \in 1..Len(ConversationIdOrder)}
                   |-> NoSession],
     log |-> {}]

\* the locks a task holds
Holding(h, t) ==
    (IF h.manager = t THEN {"manager"} ELSE {})
       \cup (IF h.cache = t THEN {"cache"} ELSE {})

release_never(h, lock) == h

\* the end of `async with self._lock`
release(h, lock) == [h EXCEPT ![lock] = ""]

\* the task suspends in `await asyncio.gather(...)`
suspend(h, t) ==
    [h EXCEPT !.running = "",
              !.log = @ \cup {[op |-> "gather", lock |-> "", holding |-> Holding(h, t)]}]

\* a write to the session object a handler holds: to the store if the object
\* is still in it, and to the object
WriteSession(d, s) == IF s.session_id \in Keys(d) THEN Assign(d, s.session_id, s) ELSE d

\* a tool request arrives: the handler runs up to its first lock
Begin(t, tool, conversation_id, session_id, pc) ==
    /\ held.running = ""
    /\ held.requests < Cardinality(Requests)
    /\ tasks' = [tasks EXCEPT ![t] =
                    [NoTask EXCEPT !.pc = pc, !.tool = tool,
                                   !.conversation_id = conversation_id,
                                   !.session_id = session_id]]
    /\ held' = [held EXCEPT !.running = t, !.requests = @ + 1,
                            !.handles = IF session_id = "" THEN @
                                        ELSE @ \cup {session_id}]
    /\ UNCHANGED <<convVars, cacheVars, retryVars, serverVars, splitVars, streamVars>>

\* web_search: _execute_search with no conversation_id.  `model` is left at
\* its default, so _get_available_models_cached is not awaited
TaskWebSearch(t) ==
    /\ tasks[t].pc = "idle"
    /\ Begin(t, "web_search", "", FirstFresh(HandleOrder, held.handles), "create")

\* search_reflect: the initial search of ReflectEngine.run
TaskSearchReflect(t) ==
    /\ tasks[t].pc = "idle"
    /\ Begin(t, "search_reflect", "", FirstFresh(HandleOrder, held.handles), "create")

\* search_followup(conversation_id)
TaskSearchFollowup(t, conversation_id) ==
    /\ tasks[t].pc = "idle"
    /\ conversation_id \in held.ids
    /\ Begin(t, "search_followup", conversation_id, "", "followup_get")

\* get_sources(session_id)
TaskGetSources(t, session_id) ==
    /\ tasks[t].pc = "idle"
    /\ session_id \in held.handles
    /\ Begin(t, "get_sources", "", session_id, "cache_get")

\* ReflectEngine.run: the supplementary search on the conversation of the
\* initial search, after the reflection named a gap
TaskSupplementarySearch(t) ==
    /\ tasks[t].pc = "done"
    /\ tasks[t].tool = "search_reflect"
    /\ tasks[t].result.kind = "ok"
    /\ tasks[t].rounds = 0
    /\ held.running = ""
    /\ held.requests < Cardinality(Requests)
    /\ tasks' = [tasks EXCEPT ![t] =
                    [NoTask EXCEPT !.pc = "reflect_get", !.tool = "search_reflect",
                                   !.conversation_id = tasks[t].result.conversation_id,
                                   !.rounds = 1]]
    /\ held' = [held EXCEPT !.running = t, !.requests = @ + 1]
    /\ UNCHANGED <<convVars, cacheVars, retryVars, serverVars, splitVars, streamVars>>

\* asyncio.Lock.acquire: taken at once if the lock is free, else the task
\* suspends until it is released
Acquire(t) ==
    /\ tasks[t].pc \in WantsLock
    /\ \/ held.running = t
       \/ held.running = "" /\ tasks[t].waiting
    /\ LET lock == LockOf(tasks[t].pc)
           entry == [op |-> tasks[t].pc, lock |-> lock, holding |-> Holding(held, t)]
       IN IF held[lock] = ""
          THEN /\ held' = [held EXCEPT ![lock] = t, !.running = t, !.log = @ \cup {entry}]
               /\ tasks' = [tasks EXCEPT ![t].pc = Locked(@), ![t].waiting = FALSE]
          ELSE /\ held' = [held EXCEPT !.running = "", !.log = @ \cup {entry}]
               /\ tasks' = [tasks EXCEPT ![t].waiting = TRUE]
    /\ UNCHANGED <<convVars, cacheVars, retryVars, serverVars, splitVars, streamVars>>

\* search_followup: conversation_manager.get under the lock, the error dict
\* if there is no live session, else on to _execute_search
FollowupGet(t) ==
    /\ held.running = t
    /\ tasks[t].pc = Locked("followup_get")
    /\ LET got == manager_get(sessions, tasks[t].conversation_id, now)
       IN /\ sessions' = got.sessions
          /\ IF ~followup_found(got.returned)
             THEN /\ tasks' = [tasks EXCEPT
                                 ![t].pc = "done",
                                 ![t].result = [kind |-> "session_expired",
                                                conversation_id |-> tasks[t].conversation_id,
                                                session_id |-> ""]]
                  /\ held' = [release(held, "manager") EXCEPT !.running = ""]
             ELSE /\ tasks' = [tasks EXCEPT
                                 ![t].pc = "exec_get",
                                 ![t].history = tasks[t].conversation_id,
                                 ![t].checked = tasks[t].conversation_id,
                                 ![t].checked_at = now,
                                 ![t].session_id = FirstFresh(HandleOrder, held.handles)]
                  /\ held' = [release(held, "manager") EXCEPT
                                !.handles = @ \cup {tasks'[t].session_id}]
    /\ UNCHANGED <<max_sessions, session_timeout, max_searches, now, ret>>
    /\ UNCHANGED <<cacheVars, retryVars, serverVars, splitVars, streamVars>>

\* ReflectEngine.run: conv_manager.get for the history of the supplementary
\* search, then _execute_search
ReflectGet(t) ==
    /\ held.running = t
    /\ tasks[t].pc = Locked("reflect_get")
    /\ LET got == manager_get(sessions, tasks[t].conversation_id, now)
       IN /\ sessions' = got.sessions
          /\ tasks' = [tasks EXCEPT
                         ![t].pc = "exec_get",
                         ![t].history = IF got.returned = None THEN ""
                                        ELSE tasks[t].conversation_id,
                         ![t].session_id = FirstFresh(HandleOrder, held.handles)]
          /\ held' = [release(held, "manager") EXCEPT
                        !.handles = @ \cup {tasks'[t].session_id}]
    /\ UNCHANGED <<max_sessions, session_timeout, max_searches, now, ret>>
    /\ UNCHANGED <<cacheVars, retryVars, serverVars, splitVars, streamVars>>

\* conv_session.add_user_message(query), then the handler suspends in the
\* gather of its provider calls
user_message_and_gather(t, d, h, conversation_id) ==
    LET s == add_user_message(h.heap[conversation_id], now)
        h2 == [h EXCEPT !.heap[conversation_id] = s]
    IN /\ sessions' = WriteSession(d, s)
       /\ tasks' = [tasks EXCEPT ![t].pc = "providers",
                                 ![t].conv_session = conversation_id,
                                 ![t].conversation_id = conversation_id,
                                 ![t].looked_at =
                                     IF tasks[t].pc = Locked("exec_get") THEN now ELSE @]
       /\ held' = suspend(h2, t)

\* _execute_search: conversation_manager.get(conversation_id) under the lock
ExecGet(t) ==
    /\ held.running = t
    /\ tasks[t].pc = Locked("exec_get")
    /\ LET got == manager_get(sessions, tasks[t].conversation_id, now)
           h == release(held, "manager")
       IN IF got.returned = None
          THEN /\ sessions' = got.sessions
               /\ tasks' = [tasks EXCEPT ![t].pc = "create", ![t].looked_at = now]
               /\ held' = h
          ELSE user_message_and_gather(
                   t, got.sessions, h, tasks[t].conversation_id)
    /\ UNCHANGED <<max_sessions, session_timeout, max_searches, now, ret>>
    /\ UNCHANGED <<cacheVars, retryVars, serverVars, splitVars, streamVars>>

\* _execute_search: conversation_manager.get_or_create() under the lock
Create(t) ==
    /\ held.running = t
    /\ tasks[t].pc = Locked("create")
    /\ LET new_id == FirstFresh(ConversationIdOrder, held.ids)
           d == manager_get_or_create(sessions, now, new_id)
           h == [release(held, "manager") EXCEPT
                    !.ids = @ \cup {new_id},
                    !.heap[new_id] = NewSession(new_id, now)]
       IN user_message_and_gather(t, d, h, new_id)
    /\ UNCHANGED <<max_sessions, session_timeout, max_searches, now, ret>>
    /\ UNCHANGED <<cacheVars, retryVars, serverVars, splitVars, streamVars>>

\* the gather returns: conv_session.add_assistant_message(answer), up to the
\* lock of the cache
ProvidersAnswered(t) ==
    /\ held.running = ""
    /\ tasks[t].pc = "providers"
    /\ LET s == add_assistant_message(held.heap[tasks[t].conv_session], now)
       IN /\ sessions' = WriteSession(sessions, s)
          /\ held' = [held EXCEPT !.running = t, !.heap[tasks[t].conv_session] = s]
          /\ tasks' = [tasks EXCEPT
                         ![t].pc = "cache_set",
                         ![t].answer_tracked = tasks[t].conv_session \in Keys(sessions)]
    /\ UNCHANGED <<max_sessions, session_timeout, max_searches, now, ret>>
    /\ UNCHANGED <<cacheVars, retryVars, serverVars, splitVars, streamVars>>

\* _SOURCES_CACHE.set under the lock, and the dict returned to the caller
CacheSetAndReturn(t) ==
    /\ held.running = t
    /\ tasks[t].pc = Locked("cache_set")
    /\ cache' = cache_set(cache, tasks[t].session_id, <<"u1">>)
    /\ tasks' = [tasks EXCEPT
                   ![t].pc = "done",
                   ![t].result = [kind |-> "ok",
                                  conversation_id |-> tasks[t].conversation_id,
                                  session_id |-> tasks[t].session_id]]
    /\ held' = [release(held, "cache") EXCEPT !.running = ""]
    /\ UNCHANGED <<max_size, cret, ever_set, streak, recency, oplog>>
    /\ UNCHANGED <<convVars, retryVars, serverVars, splitVars, streamVars>>

\* get_sources: _SOURCES_CACHE.get under the lock, and the dict returned
GetSources(t) ==
    /\ held.running = t
    /\ tasks[t].pc = Locked("cache_get")
    /\ LET r == GetReturns(cache, tasks[t].session_id)
       IN /\ cache' = IF r.found THEN MoveToEnd(cache, tasks[t].session_id) ELSE cache
          /\ tasks' = [tasks EXCEPT
                         ![t].pc = "done",
                         ![t].result = [kind |-> IF r.found THEN "sources"
                                                 ELSE "session_id_not_found_or_expired",
                                        conversation_id |-> "",
                                        session_id |-> tasks[t].session_id]]
    /\ held' = [release(held, "cache") EXCEPT !.running = ""]
    /\ UNCHANGED <<max_size, cret, ever_set, streak, recency, oplog>>
    /\ UNCHANGED <<convVars, retryVars, serverVars, splitVars, streamVars>>

\* the result went to the client
TaskReturn(t) ==
    /\ tasks[t].pc = "done"
    /\ held.running = ""
    /\ tasks' = [tasks EXCEPT ![t] = NoTask]
    /\ UNCHANGED held
    /\ UNCHANGED <<convVars, cacheVars, retryVars, serverVars, splitVars, streamVars>>

\* time passes
TaskTick ==
    /\ now + 1 \in Clock
    /\ now' = now + 1
    /\ UNCHANGED <<sessions, max_sessions, session_timeout, max_searches, ret>>
    /\ UNCHANGED <<cacheVars, retryVars, serverVars, splitVars, streamVars, taskVars>>

NextTasks ==
    \/ \E t \in Tasks : TaskWebSearch(t)
    \/ \E t \in Tasks : TaskSearchReflect(t)
    \/ \E t \in Tasks, c \in held.ids : TaskSearchFollowup(t, c)
    \/ \E t \in Tasks : TaskSupplementarySearch(t)
    \/ \E t \in Tasks, h \in held.handles : TaskGetSources(t, h)
    \/ \E t \in Tasks : Acquire(t)
    \/ \E t \in Tasks : FollowupGet(t)
    \/ \E t \in Tasks : ReflectGet(t)
    \/ \E t \in Tasks : ExecGet(t)
    \/ \E t \in Tasks : Create(t)
    \/ \E t \in Tasks : ProvidersAnswered(t)
    \/ \E t \in Tasks : CacheSetAndReturn(t)
    \/ \E t \in Tasks : GetSources(t)
    \/ \E t \in Tasks : TaskReturn(t)
    \/ TaskTick

\* no request in flight, an empty store, an empty cache
IdleConv ==
    /\ sessions = <<>>
    /\ max_sessions = 1
    /\ session_timeout = 1
    /\ max_searches = 1
    /\ now = 0
    /\ ret = NoResult("init", "")

IdleCache ==
    /\ cache = <<>>
    /\ max_size = 1
    /\ cret = CacheResult("init", "", FALSE, <<>>)
    /\ ever_set = {}
    /\ streak = <<>>
    /\ recency = <<>>
    /\ oplog = <<>>

IdleRetry ==
    /\ retry_max_attempts = 0
    /\ retry_multiplier = 1
    /\ retry_max_wait = 1
    /\ rpc = "returned"
    /\ attempt_number = 1
    /\ tries = 0
    /\ outcome = NoOutcome
    /\ upcoming_sleep = -1
    /\ raised = NoOutcome
    /\ failures = 0

IdleServer ==
    /\ run = NoRun
    /\ calls = NoCalls

IdleSplit ==
    /\ text = <<>>
    /\ split = NoSplit

IdleStream ==
    /\ response = <<>>
    /\ parsed = NoParse

IdleTasks ==
    /\ tasks = NoTasks
    /\ held = NoHeld

\* ConversationManager(max_sessions, session_timeout, max_searches)
InitConv ==
    /\ sessions = <<>>
    /\ max_sessions \in MaxSessionsChoices
    /\ session_timeout \in SessionTimeoutChoices
    /\ max_searches \in 0..MaxSearchesBound
    /\ now = 0
    /\ ret = NoResult("init", "")
    /\ IdleCache /\ IdleRetry /\ IdleServer /\ IdleSplit /\ IdleStream /\ IdleTasks

\* SourcesCache(max_size)
InitCache ==
    /\ cache = <<>>
    /\ max_size \in 1..MaxCacheSize
    /\ cret = CacheResult("init", "", FALSE, <<>>)
    /\ ever_set = {}
    /\ streak = <<>>
    /\ recency = <<>>
    /\ oplog = <<>>
    /\ IdleConv /\ IdleRetry /\ IdleServer /\ IdleSplit /\ IdleStream /\ IdleTasks

\* entry of _execute_stream_with_retry
InitRetry ==
    /\ retry_max_attempts \in 0..MaxRetryAttempts
    /\ retry_multiplier \in 1..MaxMultiplier
    /\ retry_max_wait \in 1..MaxWait
    /\ rpc = "attempt"
    /\ attempt_number = 1
    /\ tries = 0
    /\ outcome = NoOutcome
    /\ upcoming_sleep = -1
    /\ raised = NoOutcome
    /\ failures = 0
    /\ IdleConv /\ IdleCache /\ IdleServer /\ IdleSplit /\ IdleStream /\ IdleTasks

\* the process after start-up: the module-level conversation_manager and
\* _SOURCES_CACHE, no request yet
InitReflect ==
    /\ sessions = <<>>
    /\ max_sessions \in MaxSessionsChoices
    /\ session_timeout \in TimeoutChoices
    /\ max_searches \in MaxTurnsChoices
    /\ now = 0
    /\ ret = NoResult("init", "")
    /\ cache = <<>>
    /\ max_size = ServerCacheSize
    /\ cret = CacheResult("init", "", FALSE, <<>>)
    /\ ever_set = {}
    /\ streak = <<>>
    /\ recency = <<>>
    /\ oplog = <<>>
    /\ IdleRetry
    /\ IdleServer
    /\ IdleSplit /\ IdleStream /\ IdleTasks

\* a call of split_answer_and_sources with one of the texts
InitSplit ==
    /\ text \in SplitTexts
    /\ split = NoSplit
    /\ IdleConv /\ IdleCache /\ IdleRetry /\ IdleServer /\ IdleStream /\ IdleTasks

\* the process after start-up, with no request in flight in any task
InitTasks ==
    /\ sessions = <<>>
    /\ max_sessions \in MaxSessionsChoices
    /\ session_timeout \in TaskTimeouts
    /\ max_searches \in TaskMaxTurns
    /\ now = 0
    /\ ret = NoResult("init", "")
    /\ cache = <<>>
    /\ max_size = ServerCacheSize
    /\ cret = CacheResult("init", "", FALSE, <<>>)
    /\ ever_set = {}
    /\ streak = <<>>
    /\ recency = <<>>
    /\ oplog = <<>>
    /\ IdleRetry /\ IdleServer /\ IdleSplit /\ IdleStream /\ IdleTasks

\* a call of _parse_streaming_response with one of the responses
InitStream ==
    /\ response \in Responses
    /\ parsed = NoParse
    /\ IdleConv /\ IdleCache /\ IdleRetry /\ IdleServer /\ IdleSplit /\ IdleTasks

SpecConv == InitConv /\ [][NextConv]_vars

SpecCache == InitCache /\ [][NextCache]_vars

SpecRetry == InitRetry /\ [][NextRetry]_vars

SpecReflect == InitReflect /\ [][NextReflect]_vars

SpecSearch == InitReflect /\ [][NextSearch]_vars

SpecGather == InitReflect /\ [][NextGather]_vars

SpecSplit == InitSplit /\ [][NextSplit]_vars

SpecTasks == InitTasks /\ [][NextTasks]_vars

\* one configuration of the store, in which sessions expire, reach the turn
\* cap and are evicted for capacity
InitLocks ==
    /\ InitTasks
    /\ max_sessions = Least(MaxSessionsChoices)
    /\ session_timeout = Least(TaskTimeouts)
    /\ max_searches = Greatest(TaskMaxTurns)

\* the event loop runs a task that is ready to take a lock
SpecTasksFair ==
    InitLocks /\ [][NextTasks]_vars /\ \A t \in Tasks : WF_vars(Acquire(t))

SpecStream == InitStream /\ [][NextStream]_vars

(***************************************************************************)
(* Properties of ConversationManager, checked under SpecConv.              *)
(***************************************************************************)
\* the data model's notion of a live session, stated without the code's helpers
Expired(s, t) == t - s.last_access > session_timeout
OverLimit(s) == s.search_count >= max_searches
Stored(sid) == Lookup(sessions, sid)

\* C1: the store never holds more than max_sessions sessions (max_sessions >= 1),
\* whatever get_or_create, get, remove, stats and appends are made and however
\* time advances between them.
C1_CapacityBound == max_sessions >= 1 => Len(sessions) <= max_sessions

C1_Witness ==
    /\ ret.op = "get_or_create" /\ ret.created /\ ret.evicted # {}
    /\ max_sessions = 2 /\ Len(sessions) = max_sessions

\* C2: a stored session with search_count >= max_searches is never the session
\* get or get_or_create returns, even inside the expiry window: the call
\* deletes it from the store (get_or_create then constructs a new session
\* under the id), and with max_searches >= 1 no returned session is at the cap.
C2_TurnCap ==
    [][ /\ \A sid \in SessionIds :
             ( /\ sid \in Keys(sessions)
               /\ OverLimit(Stored(sid))
               /\ ret'.op \in {"get", "get_or_create"}
               /\ ret'.arg = sid )
             => /\ ret'.returned = sid => ret'.created
                /\ ret'.op = "get" => ret'.returned = None /\ sid \notin Keys(sessions')
                /\ sid \in Keys(sessions') =>
                       Lookup(sessions', sid) = NewSession(sid, now')
        /\ ( /\ max_searches >= 1
             /\ ret'.op \in {"get", "get_or_create"}
             /\ ret'.returned # None )
           => Lookup(sessions', ret'.returned).search_count < max_searches
      ]_vars

\* an over-the-limit session still inside the expiry window was asked for and purged
C2_Witness ==
    /\ ret.op \in {"get", "get_or_create"}
    /\ ret.arg \in ret.purged
    /\ max_searches >= 1
    /\ now = 0

\* C3: when get_or_create has to make room (the store, after the purge of dead
\* sessions, is at capacity) it deletes exactly one session, one with the
\* smallest last_access among those then in the store; below capacity it
\* evicts no live session.  Every other live session stays as it was.
C3_EvictionVictim ==
    [][ (ret'.op = "get_or_create" /\ ret'.created) =>
          LET live == {sid \in Keys(sessions) \ {ret'.arg} :
                          ~Expired(Stored(sid), now) /\ ~OverLimit(Stored(sid))}
              gone == live \ Keys(sessions')
          IN /\ ret'.evicted = gone
             /\ IF Cardinality(live) >= max_sessions
                THEN /\ Cardinality(gone) = 1
                     /\ \A v \in gone : \A sid \in live :
                            Stored(v).last_access <= Stored(sid).last_access
                ELSE gone = {}
             /\ \A sid \in live \ gone : Lookup(sessions', sid) = Stored(sid)
      ]_vars

\* room was made in a store of two sessions with different last_access
C3_Witness ==
    /\ ret.op = "get_or_create" /\ ret.created /\ ret.evicted # {}
    /\ Len(sessions) = 2
    /\ \E i \in 1..Len(sessions) :
          /\ sessions[i].session_id # ret.returned
          /\ sessions[i].last_access > 0

\* C4: a session with now - last_access > session_timeout is never returned by
\* get or get_or_create, and get_or_create(id) for an id naming a dead session
\* returns a newly constructed session with that id, no messages and
\* search_count 0.
C4_DeadNeverHandedOut ==
    [][ /\ (ret'.op \in {"get", "get_or_create"} /\ ret'.returned # None)
           => ~Expired(Lookup(sessions', ret'.returned), now')
        /\ \A sid \in SessionIds :
             ( /\ sid \in Keys(sessions)
               /\ (Expired(Stored(sid), now') \/ OverLimit(Stored(sid)))
               /\ ret'.op = "get_or_create"
               /\ ret'.arg = sid )
             => /\ ret'.returned = sid
                /\ ret'.created
                /\ sid \in Keys(sessions')
                /\ Lookup(sessions', sid).messages = <<>>
                /\ Lookup(sessions', sid).search_count = 0
                /\ Lookup(sessions', sid).last_access = now'
      ]_vars

\* the id of an expired session that had a message was reused
C4_Witness ==
    /\ ret.op = "get_or_create" /\ ret.created
    /\ ret.arg \in ret.purged
    /\ max_searches >= 1
    /\ now = MaxTime
    /\ Stored(ret.arg).messages = <<>>
    /\ \E i \in 1..Len(sessions) : sessions[i].messages # <<>>

\* C5: when get_or_create returns (max_searches >= 1), the returned session is
\* not expired, is below the turn cap, and is the session stored under its own
\* session_id (the requested id when one was given).
C5_GetOrCreatePost ==
    (ret.op = "get_or_create" /\ max_searches >= 1) =>
        /\ ret.returned \in Keys(sessions)
        /\ ret.arg # "" => ret.returned = ret.arg
        /\ ~Expired(Stored(ret.returned), now)
        /\ Stored(ret.returned).search_count < max_searches

C5_Witness ==
    /\ ret.op = "get_or_create" /\ ~ret.created
    /\ max_searches >= 1
    /\ Stored(ret.returned).messages # <<>>
    /\ now > Stored(ret.returned).last_access

(***************************************************************************)
(* Properties of SourcesCache, checked under SpecCache (max_size >= 1).    *)
(***************************************************************************)
\* C6: set(handle, items) followed immediately by get(handle) returns the
\* identical ordered list, the empty list included (found, and empty); get on
\* a handle that was never set returns not-found.
C6_SetGetRoundTrip ==
    [][ /\ (cret.op = "set" /\ cret'.op = "get" /\ cret'.arg = cret.arg)
           => (cret'.found /\ cret'.sources = cret.sources)
        /\ (cret'.op = "get" /\ cret'.arg \notin ever_set') => ~cret'.found
      ]_vars

\* the round trip of the empty list, with another entry in the cache
C6_Witness ==
    /\ cret.op = "get" /\ cret.found /\ cret.sources = <<>>
    /\ Len(cache) = 2
    /\ cache[1].value = <<"u2", "u1">>

\* C7: the cache never holds more than max_size entries; after max_size + 1
\* distinct handles were set with no get in between, get on the first of them
\* returns not-found and the other max_size are retrievable.
C7_CacheCapacity ==
    /\ Len(cache) <= max_size
    /\ Len(streak) = max_size + 1 =>
          /\ ~GetReturns(cache, streak[1]).found
          /\ \A i \in 2..Len(streak) : GetReturns(cache, streak[i]).found

C7_Witness ==
    /\ max_size = 2
    /\ Len(streak) = max_size + 1
    /\ cret.op = "set"

(***************************************************************************)
(* Properties of the retrying executor, checked under SpecRetry.           *)
(***************************************************************************)
\* the decimal number written at positions i..j of a text
RECURSIVE DecimalAt(_, _, _)
DecimalAt(t, i, j) ==
    IF i > j THEN 0
    ELSE 10 * DecimalAt(t, i, j - 1) + (IF t[j] = "5" THEN 5 ELSE 0)

\* the header text is a non-empty run of digits at i..j, blanks around it
IntegerAt(t, i, j) ==
    /\ i <= j
    /\ \A k \in 1..Len(t) : IF k \in i..j THEN t[k] \in {"0", "5"} ELSE t[k] = " "

Failed429 == outcome.kind = "HTTPStatusError" /\ outcome.status = 429

RetryableFailure(f) ==
    \/ f.kind \in {"TimeoutException", "NetworkError", "ConnectError", "RemoteProtocolError"}
    \/ f.kind = "HTTPStatusError" /\ f.status \in {408, 429, 500, 502, 503, 504}

\* the step at hand is a try that failed with a failure to retry, with tries
\* left: the wait policy has to name the wait before the next try
WaitDue ==
    /\ tries' = tries + 1
    /\ RetryableFailure(outcome')
    /\ tries' < retry_max_attempts + 1

\* C8: for a failed try with HTTP 429 whose Retry-After header is an integer n
\* the wait is exactly n seconds, whatever the attempt number and max_wait; for
\* a 429 whose Retry-After header is there but unparsable the wait is the
\* exponential back-off value, which is at most max_wait.
C8_RetryAfterWait ==
    [][ (/\ WaitDue
         /\ outcome'.kind = "HTTPStatusError" /\ outcome'.status = 429
         /\ outcome'.header.kind = "text" /\ outcome'.header.text # <<>>)
        => LET t == outcome'.header.text
           IN /\ rpc' = "sleeping"
              /\ IF \E i, j \in 1..Len(t) : IntegerAt(t, i, j)
                 THEN \A i, j \in 1..Len(t) :
                          IntegerAt(t, i, j) => upcoming_sleep' = DecimalAt(t, i, j)
                 ELSE upcoming_sleep' \in 0..retry_max_wait
      ]_vars

\* Retry-After: 5 on the second try, with max_wait below 5
C8_Witness ==
    /\ rpc = "sleeping" /\ Failed429
    /\ outcome.header = [kind |-> "text", text |-> <<"5">>, delta |-> 0]
    /\ upcoming_sleep = 5
    /\ attempt_number = 2
    /\ retry_max_wait = 1

\* C9: one logical request makes at most retry_max_attempts + 1 tries, makes a
\* further try only after a retryable failure, and none after a try succeeded.
C9_BoundedRetries ==
    [][ /\ tries' <= retry_max_attempts + 1
        /\ (tries' # tries /\ tries >= 1) => RetryableFailure(outcome)
        /\ outcome.kind = "ok" => tries' = tries
      ]_vars

\* the default configuration: three failures, then the fourth try succeeds
C9_Witness ==
    /\ retry_max_attempts = 3
    /\ tries = 4
    /\ rpc = "returned"

\* C10: a failed try is followed by a further try iff the failure is a
\* timeout/network/connect/protocol failure or an HTTP status in
\* {408, 429, 500, 502, 503, 504} (and tries remain, C9); any other failure
\* ends the request at that try, raised to the caller with no wait.
C10_RetryClassification ==
    [][ /\ (tries' = tries + 1 /\ outcome'.kind # "ok") =>
              IF RetryableFailure(outcome')
              THEN tries' < retry_max_attempts + 1 => rpc' = "sleeping"
              ELSE rpc' = "raised" /\ upcoming_sleep' = -1
        /\ rpc' = "sleeping" => RetryableFailure(outcome')
        /\ rpc = "sleeping" => (rpc' = "attempt" \/ UNCHANGED retryVars)
        /\ rpc = "raised" => UNCHANGED retryVars
      ]_vars

\* a 404 on the first try, with three retries configured
C10_Witness ==
    /\ rpc = "raised"
    /\ outcome.kind = "HTTPStatusError" /\ outcome.status = 404
    /\ tries = 1
    /\ retry_max_attempts = 3
    /\ upcoming_sleep = -1
    /\ raised = NoOutcome
    /\ failures = 0

(***************************************************************************)
(* Properties of a reflective run, checked under SpecReflect.              *)
(***************************************************************************)
Elapsed == now - run.start_time

ClampedReflections == IF run.requested < 3 THEN run.requested ELSE 3

LaterCalls == calls["reflect"] + calls["supp_search"] + calls["validate"]

\* C11: if the initial search of a reflective run times out or returns a
\* result carrying an error, the run has returned in that very step: a result
\* with an error, no answer text, no reflection_log and no round_sessions; and
\* no reflect call, supplementary search or validation call was ever started.
C11_InitialFailureFatal ==
    run.initial_outcome \in {"timeout", "error"} =>
        /\ run.pc = "done"
        /\ run.result.error \in {"timeout", "config_error"}
        /\ "error" \in run.result.keys
        /\ run.result.content = <<>>
        /\ run.result.keys \cap {"reflection_log", "round_sessions", "search_rounds"} = {}
        /\ LaterCalls = 0

\* the initial search timed out in a run asked for ten reflections and validation
C11_Witness ==
    /\ run.initial_outcome = "timeout"
    /\ run.requested = 10
    /\ run.cross_validate
    /\ now = SEARCH_TIMEOUT
    /\ run.pc = "done"

\* C12: whatever max_reflections >= 0 is requested and whatever the provider
\* answers, a run starts at most min(max_reflections, 3) reflect calls and at
\* most as many supplementary searches, so search_rounds <= 1 + min(max_reflections, 3)
\* and len(reflection_log) <= min(max_reflections, 3).
C12_ReflectionClamp ==
    /\ calls["reflect"] <= ClampedReflections
    /\ calls["reflect"] <= 3
    /\ calls["supp_search"] <= ClampedReflections
    /\ run.search_rounds <= 1 + ClampedReflections
    /\ Len(run.reflection_log) <= ClampedReflections
    /\ run.pc = "done" /\ run.result.error = None =>
          /\ run.result.search_rounds <= 1 + ClampedReflections
          /\ Len(run.result.reflection_log) <= ClampedReflections

\* ten reflections requested, a gap reported every time: three rounds
C12_Witness ==
    /\ run.pc = "done"
    /\ run.requested = 10
    /\ run.result.search_rounds = 4
    /\ Len(run.result.reflection_log) = 3
    /\ calls["reflect"] = 3
    /\ calls["supp_search"] = 3

NoFailureSeen ==
    run.seen \cap {"reflect_timeout", "search_timeout", "search_error", "search_raise",
                   "lookup_raise", "validate_timeout"} = {}

\* C13: a finished run with max_reflections = 1, a search callback that
\* succeeds and no timeout returns search_rounds = 2 and a reflection_log of
\* length 1 with a non-null gap if the reflect step reported a gap and a
\* query, and search_rounds = 1 and a reflection_log of length 1 with a null
\* gap if the reflect step reported no gap.
C13_EndToEnd ==
    ( /\ run.pc = "done"
      /\ run.initial_outcome = "ok"
      /\ run.requested = 1
      /\ NoFailureSeen ) =>
        /\ Len(run.result.reflection_log) = 1
        /\ "reply_gap" \in run.seen /\ run.grok = "Stub" =>
              /\ run.result.search_rounds = 2
              /\ run.result.reflection_log[1].gap \notin {None, ReflectTimeoutGap}
        /\ "reply_gap" \notin run.seen =>
              /\ run.result.search_rounds = 1
              /\ run.result.reflection_log[1].gap = None

\* the stub reported a gap: two rounds
C13_Witness ==
    /\ run.pc = "done"
    /\ run.grok = "Stub"
    /\ run.requested = 1
    /\ NoFailureSeen
    /\ "reply_gap" \in run.seen
    /\ run.result.search_rounds = 2
    /\ Len(run.result.reflection_log) = 1

\* C14: once the initial search has succeeded no exception leaves run: the
\* run is awaiting a call that will end, or it has returned a result without
\* an error whose content starts with the initial answer, whatever timeouts,
\* error results and exceptions the later calls ended with.
C14_GracefulDegradation ==
    run.initial_outcome = "ok" =>
        /\ run.pc # "raised"
        /\ run.pc \in {"reflect", "supp_search", "validate", "done"}
        /\ run.pc # "done" => ENABLED NextReflect
        /\ LaterCalls <= 2 * MAX_REFLECTIONS_HARD_LIMIT + 1
        /\ run.pc = "done" =>
              /\ run.result.error = None
              /\ "error" \notin run.result.keys
              /\ run.result.content # <<>>
              /\ run.result.content[1].answer = run.all_answers[1]
              /\ run.result.session_id = run.all_answers[1]

\* a supplementary search raised in the second round and the validation timed out
C14_Witness ==
    /\ run.pc = "done"
    /\ {"search_raise", "validate_timeout"} \subseteq run.seen
    /\ run.result.search_rounds = 2
    /\ run.result.validation = ValidationTimedOut

(***************************************************************************)
(* C15: the time budget of a reflective run.                               *)
(***************************************************************************)
\* the per-call ceiling of the call the run is suspended in
Ceiling(pc) ==
    IF pc \in {"initial_search", "supp_search"} THEN SEARCH_TIMEOUT
    ELSE SINGLE_REFLECTION_TIMEOUT

\* C15 as stated: the timeouts given to the awaited calls of one run add up
\* to at most TOTAL_TIMEOUT.
C15_GrantedSum ==
    run.tool = "search_reflect" => calls["granted"] <= TOTAL_TIMEOUT

\* C15, amended: a reflect call, supplementary search or validation call
\* starts only while elapsed < TOTAL_TIMEOUT, with a timeout of at most the
\* time remaining and at most its ceiling; the initial search starts at
\* elapsed 0 with SEARCH_TIMEOUT; so the time the run has spent never exceeds
\* TOTAL_TIMEOUT.
C15_TimeBudget ==
    /\ run.pc \in {"reflect", "supp_search", "validate"} =>
          /\ Elapsed < TOTAL_TIMEOUT
          /\ run.timeout <= TOTAL_TIMEOUT - Elapsed
          /\ run.timeout <= Ceiling(run.pc)
    /\ run.pc = "initial_search" =>
          /\ Elapsed = 0
          /\ run.timeout = SEARCH_TIMEOUT
    /\ run.tool = "search_reflect" => Elapsed <= TOTAL_TIMEOUT

\* a second reflect call starts with less than its ceiling left and is given
\* exactly what is left, after timeouts adding up to more than TOTAL_TIMEOUT
C15_Witness ==
    /\ run.pc = "reflect"
    /\ calls["reflect"] = 2
    /\ run.timeout = TOTAL_TIMEOUT - Elapsed
    /\ run.timeout < SINGLE_REFLECTION_TIMEOUT
    /\ calls["granted"] > TOTAL_TIMEOUT

(***************************************************************************)
(* C16: search_followup on a conversation that is not there.               *)
(***************************************************************************)
\* the id names no stored session, or one that is expired or over its limit
NotFound(d, conversation_id, t) ==
    \/ conversation_id \notin Keys(d)
    \/ Expired(Lookup(d, conversation_id), t)
    \/ OverLimit(Lookup(d, conversation_id))

\* C16: search_followup with a conversation id that is absent or names a dead
\* session returns error = session_expired and searches nothing: no provider
\* call, no session created, no message appended, no cache entry added.
C16_SessionNotFound ==
    [][(/\ run.pc = "idle"
        /\ run'.tool = "search_followup"
        /\ NotFound(sessions, run'.conversation_id, now))
       => /\ run'.pc = "done"
          /\ "error" \in run'.result.keys
          /\ run'.result.error = "session_expired"
          /\ run'.result.conversation_id = run'.conversation_id
          /\ calls'["search"] = calls["search"]
          /\ Keys(sessions') \subseteq Keys(sessions)
          /\ \A k \in Keys(sessions') : Lookup(sessions', k) = Lookup(sessions, k)
          /\ cache' = cache]_vars

\* a follow-up on a conversation an earlier search created and that has died
\* since was answered with session_expired
C16_Witness ==
    /\ run.pc = "done"
    /\ run.tool = "search_followup"
    /\ "dead" \in run.seen
    /\ run.result.error = "session_expired"
    /\ calls["search"] >= 1
    /\ cache # <<>>

(***************************************************************************)
(* C17: reflection with the provider search_reflect constructs.            *)
(***************************************************************************)
\* C17: in a run of search_reflect with GrokSearchProvider, when the provider
\* answers a reflect call with a non-null gap and a non-null
\* supplementary_query, the run appends a log entry with that gap and, unless
\* fewer than MinRemaining seconds are left or the search fails before its
\* await, goes on to the supplementary search.
C17_ReflectionEffective ==
    [][(/\ run.pc = "reflect"
        /\ run.grok = "GrokSearchProvider"
        /\ "reply_gap" \in run'.seen \ run.seen)
       => /\ Len(run'.reflection_log) = Len(run.reflection_log) + 1
          /\ run'.reflection_log[Len(run'.reflection_log)].gap = GapText
          /\ (/\ TOTAL_TIMEOUT - (now' - run.start_time) >= MinRemaining
              /\ run'.seen \cap {"lookup_raise", "search_error"} = {})
             => run'.pc = "supp_search"]_vars

(***************************************************************************)
(* C18: the supplementary searches run in the conversation of the initial  *)
(* search.                                                                 *)
(***************************************************************************)
\* C18: every supplementary search of a reflective run is executed in the
\* conversation of the initial search, and a run that returns
\* search_rounds = k has appended exactly k user messages and k assistant
\* messages to the conversation its result names, for every max_turns and
\* max_sessions.
C18_ConversationReuse ==
    /\ run.pc = "supp_search" => run.frame.conversation_id = run.conversation_id
    /\ (/\ run.pc = "done"
        /\ run.tool = "search_reflect"
        /\ "error" \notin run.result.keys)
       => /\ run.result.conversation_id = run.conversation_id
          /\ run.appended.user = run.result.search_rounds
          /\ run.appended.assistant = run.result.search_rounds

(***************************************************************************)
(* Properties of split_answer_and_sources, checked under SpecSplit.        *)
(***************************************************************************)
NonSpace(t) == SelectSeq(t, LAMBDA x : ~IsSpace(x))

\* the URLs of the links of a text: those of its Markdown links, and its bare
\* URLs without the punctuation that follows them
LinkUrls(t) ==
    {t[i].url : i \in {j \in 1..Len(t) : t[j].k = "link"}}
      \cup {rstrip_punctuation(t[i].url) : i \in {j \in 1..Len(t) : t[j].k = "url"}}

\* a sources heading: a word for "sources", after "#"s or not, with a colon or not
IsHeadingLine(line) ==
    LET body == IF line # <<>> /\ line[1].k = "hash" THEN Tail(line) ELSE line
    IN /\ body # <<>>
       /\ body[1].k = "kw" /\ body[1].s \in HeadingWords
       /\ Tail(body) \in {<<>>, <<COLON>>}

HeadingStarts(t) ==
    {i \in 1..Len(t) : AtLineStart(t, i) /\ IsHeadingLine(RestOfLine(t, i))}

\* C19: for "conclusion", a blank line, "## Sources", "- [A](https://a.com)",
\* "- [B](https://b.com)" the answer is "conclusion" and the sources are
\* {a.com, A}, {b.com, B} in that order; whenever the heading strategy
\* decides, the answer is the text before the chosen heading (the last one
\* with links after it) and the sources are the links after it.
C19_HeadingSplit ==
    split # NoSplit =>
        /\ text = HeadingExample =>
              /\ split.answer = <<W("conclusion")>>
              /\ split.sources = << [title |-> "A", url |-> UrlA],
                                    [title |-> "B", url |-> UrlB] >>
        /\ split.by = "heading" =>
              \E i \in HeadingStarts(strip(text)) :
                  /\ LinkUrls(From(strip(text), i)) # {}
                  /\ \A j \in HeadingStarts(strip(text)) :
                         j > i => LinkUrls(From(strip(text), j)) = {}
                  /\ NonSpace(split.answer) = NonSpace(Before(strip(text), i))
                  /\ strip(split.answer) = split.answer
                  /\ (strip(text)[1].k # "think_open"
                        => split.answer = rstrip(Before(strip(text), i)))
                  /\ SourceUrls(split.sources) = LinkUrls(From(strip(text), i))

\* the example was split at its heading
C19_Witness ==
    /\ text = HeadingExample
    /\ split.by = "heading"
    /\ Len(split.sources) = 2

(***************************************************************************)
(* C20: the fallback.                                                      *)
(***************************************************************************)
\* a line that is a link and nothing else, bulleted or not
LinkOnly(line) ==
    LET body == IF line # <<>> /\ line[1].k = "bullet" THEN Tail(line) ELSE line
    IN body # <<>> /\ body[1].k \in {"url", "link"}

\* no source function call, no sources heading, no details block at the end,
\* fewer than two link-only lines at the end
NoSourceBlock(t) ==
    /\ ~\E i \in 1..(Len(t) - 1) :
           /\ AtLineStart(t, i)
           /\ t[i].k = "kw" /\ t[i].s \in FunctionWords
           /\ t[i + 1].k = "("
    /\ HeadingStarts(t) = {}
    /\ t = <<>> \/ t[Len(t)].k # "details_close"
    /\ LET lines == SelectSeq(splitlines(t), LAMBDA l : l # <<>>)
       IN ~(/\ Len(lines) >= 2
            /\ LinkOnly(lines[Len(lines)])
            /\ LinkOnly(lines[Len(lines) - 1]))

BareUrls(t) ==
    LET m == SelectSeq(t, LAMBDA x : x.k = "url")
    IN [i \in 1..Len(m) |-> rstrip_punctuation(m[i].url)]

\* the text holds two different bare URLs and no other link
TwoBareUrls(t) ==
    /\ Len(BareUrls(t)) = 2
    /\ BareUrls(t)[1] # BareUrls(t)[2]
    /\ \A i \in 1..Len(t) : t[i].k # "link"

\* the text after a leading <think>...</think> block
AfterReasoning(t) ==
    IF t # <<>> /\ t[1].k = "think_open" /\ \E i \in 1..Len(t) : t[i].k = "think_close"
    THEN From(t, 1 + CHOOSE i \in 1..Len(t) :
                         /\ t[i].k = "think_close"
                         /\ \A j \in 1..(i - 1) : t[j].k # "think_close")
    ELSE t

KeyOrder(c) == [i \in 1..Len(c) |-> c[i].key]

\* the position of handle h in the history of latest uses, 0 if never used
RECURSIVE Rank(_, _)
Rank(q, h) ==
    IF q = <<>> THEN 0
    ELSE IF q[Len(q)] = h THEN Len(q)
    ELSE Rank(SubSeq(q, 1, Len(q) - 1), h)

\* C21: set (insert or overwrite) and a successful get make the handle the
\* most recently used one; whenever set evicts, the evicted handle is the one
\* whose latest set-or-get is oldest; overwriting an existing handle evicts
\* nothing; with capacity 2, set(a), set(b), get(a), set(c) leaves a and c
\* retrievable and b not found.
C21_Recency ==
    [][ /\ (cret'.op = "set" \/ (cret'.op = "get" /\ cret'.found))
           => /\ cache'[Len(cache')].key = cret'.arg
              /\ \A h \in CacheKeys(cache') : Rank(recency', h) <= Rank(recency', cret'.arg)
        /\ cret'.op = "set"
           => /\ \A e \in CacheKeys(cache) \ CacheKeys(cache') :
                    \A k \in CacheKeys(cache) \ {e} : Rank(recency, e) < Rank(recency, k)
              /\ cret'.arg \in CacheKeys(cache) => CacheKeys(cache') = CacheKeys(cache)
        /\ \A a, b, c \in Handles :
              (max_size = 2 /\ a # b /\ c \notin {a, b} /\ oplog' = Scenario(a, b, c))
              => /\ GetReturns(cache', a).found
                 /\ GetReturns(cache', c).found
                 /\ ~GetReturns(cache', b).found
      ]_vars

\* the example ran: the handle that was got survived the eviction, and the
\* handle set after it but not used since was evicted
C21_Witness ==
    /\ max_size = 2
    /\ oplog = Scenario("h1", "h2", "h3")
    /\ KeyOrder(cache) = <<"h1", "h3">>
    /\ recency = <<"h2", "h1", "h3">>

(***************************************************************************)
(* Session histories and read operations, checked under SpecConv.          *)
(***************************************************************************)
\* the number of messages of session s with role user
UserMessages(s) == Cardinality({i \in 1..Len(s.messages) : s.messages[i] = "user"})

IsPrefix(p, q) == Len(p) <= Len(q) /\ SubSeq(q, 1, Len(p)) = p

\* the session stored under sid was constructed by the step at hand
Recreated(sid) == ret'.created /\ ret'.returned = sid

ReadStep ==
    \/ ret'.op \in {"get", "stats"}
    \/ ret'.op = "get_or_create" /\ ~ret'.created

\* C23: get, get_or_create on an existing alive id, and stats leave every
\* surviving session as it was (messages, search_count, created_at,
\* last_access, and its place in the dict, so the eviction order too), and
\* every session they remove was dead when the operation ran.
C23_ReadsDoNotTouch ==
    [][ ReadStep
        => /\ sessions' = SelectSeq(sessions, LAMBDA s : s.session_id \in Keys(sessions'))
           /\ \A sid \in Keys(sessions) \ Keys(sessions') : IsDead(Lookup(sessions, sid), now)
      ]_vars

\* stats purged a dead session and kept an alive one whose last access lies
\* in the past
C23_Witness ==
    /\ ret.op = "stats"
    /\ ret.purged # {}
    /\ \E i \in 1..Len(sessions) :
          /\ sessions[i].last_access < now
          /\ ~IsDead(sessions[i], now)

(***************************************************************************)
(* Failures inside the reflection loop, checked under SpecReflect.         *)
(***************************************************************************)
\* the entries of the reflection log written for round n
EntriesOfRound(r, n) == {j \in 1..Len(r.reflection_log) : r.reflection_log[j].round = n}

\* the answers of a result's content, in order
AnswersOf(result) == [k \in 1..Len(result.content) |-> result.content[k].answer]

\* a run that returned a dict without an error
ReturnedNormally(r) ==
    /\ r.pc = "done"
    /\ r.result.error = None
    /\ "error" \notin r.result.keys

\* C24: when a reflect call times out, the run appends exactly one log entry
\* for that round, with no supplementary query; it starts no further reflect
\* call and no further supplementary search; and it returns a result without
\* an error that holds the answers gathered so far.
C24_ReflectTimeoutTerminal ==
    [][ /\ (run.pc = "reflect" /\ "reflect_timeout" \in run'.seen)
           => /\ Len(run'.reflection_log) = Len(run.reflection_log) + 1
              /\ Cardinality(EntriesOfRound(run', run.i + 1)) = 1
              /\ run'.reflection_log[Len(run'.reflection_log)]
                     = LogEntry(run.i + 1, ReflectTimeoutGap, None)
              /\ run'.all_answers = run.all_answers
              /\ run'.pc \in {"validate", "done"}
        /\ "reflect_timeout" \in run.seen
           => /\ calls'["reflect"] = calls["reflect"]
              /\ calls'["supp_search"] = calls["supp_search"]
              /\ run'.reflection_log = run.reflection_log
              /\ ReturnedNormally(run')
              /\ AnswersOf(run'.result) = run.all_answers
              /\ run'.result.reflection_log = run.reflection_log
        /\ ("reflect_timeout" \in run'.seen /\ run'.pc = "done")
           => /\ ReturnedNormally(run')
              /\ AnswersOf(run'.result) = run'.all_answers
      ]_vars

\* the second reflect call timed out after a supplementary search succeeded,
\* and the run returned both answers
C24_Witness ==
    /\ "reflect_timeout" \in run.seen
    /\ run.pc = "done"
    /\ Len(run.result.content) = 2
    /\ Len(run.result.reflection_log) = 2
    /\ calls["reflect"] = 2
    /\ calls["supp_search"] = 1

\* how a supplementary search can fail: it times out or raises while awaited,
\* the lookup of the conversation raises, or _execute_search returns an error
SearchFailures == {"search_timeout", "search_raise", "search_error", "lookup_raise"}

FailedSearch(r) == r.seen \cap SearchFailures # {}

\* the sources every successful search of the model reports
SourcesPerSearch == Len(CHOOSE s \in SearchSources : TRUE)

\* history: the supplementary searches that were awaited to a successful end,
\* counted in the state from which one is failing or a reflect call is ending
Succeeded == calls["supp_search"] - (IF run.pc = "supp_search" THEN 1 ELSE 0)

HandlesOf(r) ==
    {r.round_sessions[j].session_id : j \in 1..Len(r.round_sessions)}
      \cup {r.all_answers[j] : j \in 1..Len(r.all_answers)}

\* C25: when a supplementary search times out, raises or returns an error,
\* the loop stops (no reflect call and no supplementary search is started
\* afterwards) and what was gathered stays as it was: search_rounds,
\* sources_count, round_sessions and the answers of the content are those of
\* the initial search and of the supplementary searches that succeeded, and
\* the failed search is in none of them.
C25_SuppFailurePreserves ==
    [][ /\ (FailedSearch(run') /\ ~FailedSearch(run))
           => /\ run'.search_rounds = 1 + Succeeded
              /\ run'.sources_count = SourcesPerSearch * (1 + Succeeded)
              /\ Len(run'.round_sessions) = 1 + Succeeded
              /\ Len(run'.all_answers) = 1 + Succeeded
              /\ run'.round_sessions = run.round_sessions
              /\ run'.all_answers = run.all_answers
              /\ run.pc = "supp_search" => run.frame.session_id \notin HandlesOf(run')
              /\ run'.pc \in {"validate", "done"}
        /\ FailedSearch(run)
           => /\ calls'["reflect"] = calls["reflect"]
              /\ calls'["supp_search"] = calls["supp_search"]
              /\ run'.search_rounds = run.search_rounds
              /\ run'.sources_count = run.sources_count
              /\ run'.round_sessions = run.round_sessions
              /\ run'.all_answers = run.all_answers
        /\ (FailedSearch(run') /\ run'.pc = "done")
           => /\ ReturnedNormally(run')
              /\ AnswersOf(run'.result) = run'.all_answers
              /\ run'.result.search_rounds = run'.search_rounds
              /\ run'.result.sources_count = run'.sources_count
              /\ run'.result.round_sessions = run'.round_sessions
      ]_vars

\* the second supplementary search timed out after the first succeeded, and
\* the run returned two answers, two rounds and the sources of two searches
C25_Witness ==
    /\ "search_timeout" \in run.seen
    /\ run.pc = "done"
    /\ calls["supp_search"] = 2
    /\ run.result.search_rounds = 2
    /\ Len(run.result.content) = 2
    /\ Len(run.result.round_sessions) = 2
    /\ run.result.sources_count = 2 * SourcesPerSearch

\* history: the replies to a reflection prompt that hold no JSON object with
\* both a gap and a supplementary_query
Malformed == {"reply_text", "reply_array", "reply_raise", "reply_empty",
              "reply_gap_only", "reply_query_only"}

\* the reflect call of the step at hand ended with such a reply, or the call
\* itself raised because the provider does not take its arguments
MalformedReply ==
    \/ (run'.seen \ run.seen) \cap Malformed # {}
    \/ /\ ~AcceptsCall(run.grok, ReflectCallKwargs)
       /\ "no_gap" \in run'.seen \ run.seen

\* C26: when the reply to a reflection prompt is unparsable text, JSON that
\* is no object, an empty object, a gap without a query (or a query without a
\* gap), or the provider call raises, the round is logged with gap = null and
\* no query, no supplementary search is run for it, the loop stops, and the
\* run returns without an error.
C26_MalformedReflection ==
    [][ /\ (run.pc = "reflect" /\ MalformedReply)
           => /\ run'.reflection_log
                    = Append(run.reflection_log, LogEntry(run.i + 1, None, None))
              /\ calls'["supp_search"] = calls["supp_search"]
              /\ calls'["reflect"] = calls["reflect"]
              /\ run'.all_answers = run.all_answers
              /\ run'.pc \in {"validate", "done"}
        /\ run.seen \cap Malformed # {}
           => /\ calls'["supp_search"] = calls["supp_search"]
              /\ calls'["reflect"] = calls["reflect"]
              /\ run'.reflection_log = run.reflection_log
        /\ (run'.seen \cap Malformed # {} /\ run'.pc = "done")
           => /\ ReturnedNormally(run')
              /\ run'.result.reflection_log = run'.reflection_log
              /\ AnswersOf(run'.result) = run'.all_answers
      ]_vars

\* a provider that takes the reflection call answered the second prompt with
\* a gap and no query: the run returned two answers and a log ending in a
\* null gap
C26_Witness ==
    /\ run.grok = "Stub"
    /\ "reply_gap_only" \in run.seen
    /\ run.pc = "done"
    /\ Len(run.result.content) = 2
    /\ Len(run.result.reflection_log) = 2
    /\ run.result.reflection_log[2] = LogEntry(2, None, None)
    /\ calls["supp_search"] = 1

(***************************************************************************)
(* Cross-validation and the composed answer, checked under SpecReflect.    *)
(***************************************************************************)
\* the step at hand leaves the reflection loop (or returns before it)
LeavesLoop == run.pc \notin {"validate", "done"} /\ run'.pc \in {"validate", "done"}

\* cross_validate was requested, more than one answer was gathered, and more
\* than MinRemaining seconds of the budget remain, in the state the step ends in
ValidationDue ==
    /\ run'.cross_validate
    /\ Len(run'.all_answers) > 1
    /\ TOTAL_TIMEOUT - (now' - run'.start_time) > MinRemaining

\* C27: a validation call is made, and the result has a validation field, iff
\* cross_validate was requested, more than one answer was gathered and more
\* than 5 seconds of the budget remain; when that call times out the
\* validation is consistency unknown, confidence 0 and one conflict entry
\* (the timeout), and the run returns normally with all gathered answers.
C27_ValidationGate ==
    [][ /\ LeavesLoop
           => /\ (run'.pc = "validate") <=> ValidationDue
              /\ calls'["validate"] = calls["validate"] + (IF ValidationDue THEN 1 ELSE 0)
              /\ run'.pc = "done" => "validation" \notin run'.result.keys
        /\ run.pc = "validate"
           => /\ ReturnedNormally(run')
              /\ "validation" \in run'.result.keys
              /\ AnswersOf(run'.result) = run.all_answers
              /\ calls'["validate"] = calls["validate"]
              /\ "validate_timeout" \in run'.seen
                 => /\ run'.result.validation.consistency = "unknown"
                    /\ run'.result.validation.confidence = 0
                    /\ run'.result.validation.conflicts = <<"validation timed out">>
      ]_vars

\* the validation of two answers timed out and the run returned both
C27_Witness ==
    /\ "validate_timeout" \in run.seen
    /\ run.pc = "done"
    /\ "validation" \in run.result.keys
    /\ Len(run.result.content) = 2
    /\ calls["validate"] = 1

\* history: the supplementary searches of the run that succeeded
SucceededSearches ==
    calls["supp_search"] - Cardinality(run.seen \cap {"search_timeout", "search_raise"})

\* C28: the content of a reflective run's result starts with the initial
\* answer and is exactly that when no supplementary search succeeded;
\* otherwise the supplementary answers follow in round order, the k-th
\* labelled with round k and with the gap of the one log entry of round k,
\* the entry whose supplementary query produced the answer: the gap the
\* provider named in reply to the k-th prompt, never null.
C28_Composition ==
    (run.tool = "search_reflect" /\ ReturnedNormally(run))
    => LET c == run.result.content
           rs == run.result.round_sessions
           log == run.result.reflection_log
       IN /\ Len(c) = 1 + SucceededSearches
          /\ Len(rs) = Len(c)
          /\ c[1] = [round |-> 0, gap |-> None, answer |-> rs[1].session_id]
          /\ \A k \in 1..(Len(c) - 1) :
                /\ c[k + 1].round = k
                /\ rs[k + 1].round = k
                /\ c[k + 1].answer = rs[k + 1].session_id
                /\ \E j \in 1..Len(log) :
                      /\ log[j].round = k
                      /\ \A j2 \in 1..Len(log) : log[j2].round = k => j2 = j
                      /\ log[j].supplementary_query = rs[k + 1].query
                      /\ c[k + 1].gap = log[j].gap
                /\ c[k + 1].gap = GapOrder[k]
                /\ c[k + 1].gap # None

\* three supplementary searches succeeded and the content holds four answers
C28_Witness ==
    /\ run.tool = "search_reflect"
    /\ ReturnedNormally(run)
    /\ SucceededSearches = 3
    /\ Len(run.result.content) = 4
    /\ run.result.content[3].gap = "another gap"

(***************************************************************************)
(* The end of a logical request and the waits between its tries, checked   *)
(* under SpecRetry.                                                        *)
(***************************************************************************)
\* C29: when every one of the retry_max_attempts + 1 tries ended with a
\* retryable failure, the call has raised the exception of the last try; a
\* call returns only what a successful try parsed, and a call that returned
\* raised nothing.
C29_ExhaustedRetriesRaise ==
    /\ failures = retry_max_attempts + 1
       => /\ tries = retry_max_attempts + 1
          /\ rpc = "raised"
          /\ raised = outcome
          /\ RetryableFailure(raised)
    /\ rpc = "returned" => (outcome.kind = "ok" /\ raised = NoOutcome /\ failures = tries - 1)

\* four tries of the default configuration failed, the last with a 503
C29_Witness ==
    /\ retry_max_attempts = 3
    /\ failures = 4
    /\ rpc = "raised"
    /\ raised.kind = "HTTPStatusError" /\ raised.status = 503

\* a Retry-After header that names a wait: an integer with blanks around it,
\* or an HTTP-date
ParsableRetryAfter(h) ==
    \/ h.kind = "date"
    \/ h.kind = "text" /\ \E i, j \in 1..Len(h.text) : IntegerAt(h.text, i, j)

\* the ceiling of the exponential value before the k-th retry (k from 0)
ExponentialCeiling == Min(retry_max_wait, retry_multiplier * Pow2(attempt_number - 1))

\* C30: the wait after a RemoteProtocolError is the jittered exponential
\* value plus exactly 3 seconds, so it lies in [3, max_wait + 3]; the wait
\* after every other retryable failure that is not a 429 with a parsable
\* Retry-After header (a 503 with a Retry-After header and a 429 without one
\* included) is the jittered exponential value, at most
\* min(max_wait, multiplier * 2^k), so it lies in [0, max_wait].
C30_WaitPolicy ==
    [][ WaitDue
        => IF outcome'.kind = "RemoteProtocolError"
           THEN /\ rpc' = "sleeping"
                /\ upcoming_sleep' - 3 \in 0..ExponentialCeiling
                /\ upcoming_sleep' \in 3..(retry_max_wait + 3)
           ELSE ~(/\ outcome'.kind = "HTTPStatusError" /\ outcome'.status = 429
                  /\ ParsableRetryAfter(outcome'.header))
                => /\ rpc' = "sleeping"
                   /\ upcoming_sleep' \in 0..ExponentialCeiling
                   /\ upcoming_sleep' \in 0..retry_max_wait
      ]_vars

\* the second try broke off mid-stream and the wait is max_wait + 3
C30_Witness ==
    /\ rpc = "sleeping"
    /\ outcome.kind = "RemoteProtocolError"
    /\ attempt_number = 2
    /\ retry_max_wait = 2
    /\ upcoming_sleep = 5

(***************************************************************************)
(* C33  Stream consumption                                                 *)
(***************************************************************************)
\* the data: lines that are not the sentinel, in arrival order
DataLines(lines) == SelectSeq(lines, LAMBDA l : StartsWithData(l) /\ ~IsDone(l))

\* the line carries a choices[0].delta.content
CarriesContent(l) ==
    /\ l.frag = "whole" /\ l.value.t = "object" /\ l.value.choices # <<>>
    /\ l.value.choices[1].delta # "absent"

\* a data: line whose payload is not a chunk: broken JSON, or JSON that is
\* not an object
MalformedPayload(l) == l.frag # "whole" \/ l.value.t # "object"

RECURSIVE Concatenation(_)
Concatenation(ls) ==
    IF ls = <<>> THEN <<>>
    ELSE (IF CarriesContent(ls[1]) /\ ls[1].value.choices[1].delta # "null"
          THEN Str(ls[1].value.choices[1].delta) ELSE <<>>) \o Concatenation(Tail(ls))

\* choices[0].message.content of the whole body read as one JSON object,
\* the empty string if there is none
WholeBodyContent(lines) ==
    LET data == json_loads_joined(SelectSeq(lines, LAMBDA l : ~IsBlankLine(l)))
    IN IF data.t = "object" /\ data.choices # <<>>
          /\ data.choices[1].message \notin {"absent", "null"}
       THEN Str(data.choices[1].message)
       ELSE <<>>

\* C33: the call returns the concatenation, in arrival order, of the
\* choices[0].delta.content of the data: lines that carry one; the sentinel,
\* blank lines, other lines and data: lines with a malformed payload add
\* nothing and do not end the call; only if the concatenation is empty the
\* whole body is read as one JSON object and its choices[0].message.content
\* is returned, the empty string if that fails too.
C33_StreamConsumption ==
    parsed.done =>
        /\ parsed.kind = "str"
        /\ parsed.content =
              IF Concatenation(DataLines(response)) # <<>>
              THEN Concatenation(DataLines(response))
              ELSE WholeBodyContent(response)

\* the part of C33 the code keeps: responses whose data: payloads are broken
\* JSON or objects with string contents, and whose body is no bare number
C33_WellShaped ==
    (/\ parsed.done
     /\ \A i \in 1..Len(response) :
           /\ StartsWithData(response[i]) /\ ~IsDone(response[i])
                 => /\ response[i].value.t \in {"bad", "object"}
                    /\ ~(CarriesContent(response[i]) /\ response[i].value.choices[1].delta = "null")
           /\ response[i].value.t # "number"
           /\ ~(response[i].value.t = "object" /\ response[i].value.choices # <<>>
                /\ response[i].value.choices[1].message = "null"))
        => /\ parsed.kind = "str"
           /\ parsed.content =
                 IF Concatenation(DataLines(response)) # <<>>
                 THEN Concatenation(DataLines(response))
                 ELSE WholeBodyContent(response)

(***************************************************************************)
(* C34  Splitter strategy precedence                                       *)
(***************************************************************************)
\* the text the strategies see
Content(t) == extract_leading_think(strip(t)).content

\* the strategies in the order of the claim, each with what it yields
Strategies(t) ==
    << [by |-> "function_call", r |-> split_function_call_sources(Content(t))],
       [by |-> "heading", r |-> split_heading_sources(Content(t))],
       [by |-> "details", r |-> split_details_block_sources(Content(t))],
       [by |-> "tail_links", r |-> split_tail_link_block(Content(t))],
       [by |-> "fallback",
        r |-> Match(Content(t), extract_sources_from_text(Content(t)))] >>

\* a line that starts with a URL or is a Markdown link and nothing else,
\* bulleted or not
PureLinkLine(line) ==
    LET body == IF line # <<>> /\ line[1].k = "bullet" THEN Tail(line) ELSE line
    IN body # <<>> /\ (body[1].k = "url" \/ (Len(body) = 1 /\ body[1].k = "link"))

\* the link-only lines at the end of the text, blank lines aside
RECURSIVE TrailingLinkLines(_)
TrailingLinkLines(lines) ==
    IF lines = <<>> THEN 0
    ELSE IF lines[Len(lines)] = <<>> THEN TrailingLinkLines(SubSeq(lines, 1, Len(lines) - 1))
    ELSE IF PureLinkLine(lines[Len(lines)])
         THEN 1 + TrailingLinkLines(SubSeq(lines, 1, Len(lines) - 1))
    ELSE 0

\* a call that reached the strategies
Strategic == split.by \in {"function_call", "heading", "details", "tail_links", "fallback"}

\* the first strategy in the fixed order that yields decides answer and sources
FirstWins ==
    \A k \in 1..5 :
        LET st == Strategies(text)
        IN (st[k].r.found /\ \A j \in 1..(k - 1) : ~st[j].r.found) =>
              /\ split.by = st[k].by
              /\ split.sources = st[k].r.sources
              /\ NonSpace(split.answer) =
                    NonSpace(extract_leading_think(strip(text)).think_prefix)
                       \o NonSpace(st[k].r.answer)

\* C34: the strategies are tried in the order function call, heading,
\* collapsible block, trailing link block, fallback, and the first one that
\* yields decides both answer and sources; the collapsible block decides
\* only with at least two sources, the trailing link block only with at
\* least two link-only lines at the end of the text.
C34_Precedence ==
    Strategic =>
        /\ FirstWins
        /\ split.by = "details" => Len(split.sources) >= 2
        /\ split.by = "tail_links" => TrailingLinkLines(splitlines(Content(text))) >= 2

\* the order and the threshold of the collapsible block alone
C34_OrderOnly ==
    Strategic => FirstWins /\ (split.by = "details" => Len(split.sources) >= 2)

(***************************************************************************)
(* C35  Source normalization                                               *)
(***************************************************************************)
\* the part of the text the deciding strategy took the sources from
Scanned(t, by) ==
    LET won == SelectSeq(Strategies(t), LAMBDA st : st.by = by)
    IN IF by = "fallback" \/ won = <<>> THEN Content(t)
       ELSE From(Content(t), Len(won[1].r.answer) + 1)

\* the URL a link of the text stands for in a source list
UrlOf(x) == IF x.k = "link" THEN x.url ELSE rstrip_punctuation(x.url)

\* where a URL first occurs in a text, 0 if nowhere
FirstOccurrence(t, url) ==
    LET at == {i \in 1..Len(t) : t[i].k \in {"url", "link"} /\ UrlOf(t[i]) = url}
    IN IF at = {} THEN 0 ELSE CHOOSE i \in at : \A j \in at : i <= j

\* the URL is spelled with one of the two schemes
HasScheme(url) ==
    url # <<>> /\ \E rest \in {"a.com", "b.com"} :
                      url[1] \in {"http://" \o rest, "https://" \o rest}

NoDuplicateUrls(sources) ==
    \A i, j \in 1..Len(sources) : sources[i].url = sources[j].url => i = j

\* C35: the returned sources hold no URL twice, every URL starts with
\* http:// or https://, and the sources stand in the order in which their
\* URLs first occur in the scanned text, Markdown links and bare URLs mixed
\* or not.
C35_Normalization ==
    split # NoSplit =>
        /\ NoDuplicateUrls(split.sources)
        /\ \A i \in 1..Len(split.sources) : HasScheme(split.sources[i].url)
        /\ \A i, j \in 1..Len(split.sources) :
              i < j => FirstOccurrence(Scanned(text, split.by), split.sources[i].url)
                          < FirstOccurrence(Scanned(text, split.by), split.sources[j].url)

\* the part of C35 the code keeps: no URL twice, every URL with its scheme
C35_NoDuplicates ==
    split # NoSplit =>
        /\ NoDuplicateUrls(split.sources)
        /\ \A i \in 1..Len(split.sources) : HasScheme(split.sources[i].url)

(***************************************************************************)
(* C37  Audit trail of a reflective run                                    *)
(***************************************************************************)
\* a search_reflect call returned a result without "error"
ReflectiveResult ==
    /\ run.pc = "done"
    /\ run.tool = "search_reflect"
    /\ "error" \notin run.result.keys

\* C37: in a result without error, round_sessions, search_rounds and the
\* gathered answers agree in number; round_sessions starts with round 0, the
\* original query and the result's session_id; its k-th later entry has round
\* k and the supplementary_query of the k-th entry of reflection_log, whose
\* gap is not null; the rounds of reflection_log are 1..n, only its last
\* entry carries a null gap or the timeout marker, and every search after the
\* first has its entry in reflection_log.
C37_AuditTrail ==
    ReflectiveResult =>
        LET res == run.result
            log == res.reflection_log
            rs == res.round_sessions
        IN /\ Len(rs) = res.search_rounds
           /\ res.search_rounds = Len(run.all_answers)
           /\ Len(res.content) = Len(run.all_answers)
           /\ Len(rs) >= 1
           /\ rs[1] = [round |-> 0, query |-> run.query, session_id |-> res.session_id]
           /\ res.search_rounds - 1 <= Len(log)
           /\ \A k \in 2..Len(rs) :
                 /\ rs[k].round = k - 1
                 /\ rs[k].query = log[k - 1].supplementary_query
                 /\ log[k - 1].gap # None
           /\ \A n \in 1..Len(log) :
                 /\ log[n].round = n
                 /\ n < Len(log) => log[n].gap \notin {None, ReflectTimeoutGap}

\* two supplementary searches, then a reflection that timed out
C37_Witness ==
    /\ ReflectiveResult
    /\ run.result.search_rounds = 3
    /\ Len(run.result.reflection_log) = 3
    /\ run.result.reflection_log[3].gap = ReflectTimeoutGap
    /\ run.result.round_sessions[3].round = 2

(***************************************************************************)
(* C40  An abandoned search and the conversation                           *)
(***************************************************************************)
\* the timeout of asyncio.wait_for fires on the search the run awaits
SearchAbandoned ==
    \/ run.pc = "initial_search" /\ run'.initial_outcome = "timeout"
    \/ run.pc = "supp_search" /\ "search_timeout" \in run'.seen

\* C40: when the timeout fires on the initial or a supplementary search of a
\* reflective run, the conversation of that search has the messages and the
\* turn_count it had before the call.
C40_AbandonedSearchNoTrace ==
    [][ SearchAbandoned =>
          \A i \in 1..Len(sessions') :
              sessions'[i].session_id = run.frame.conv_session =>
                  /\ sessions'[i].messages = run.frame.before.messages
                  /\ sessions'[i].search_count = run.frame.before.search_count ]_vars

(***************************************************************************)
(* C32  Joined provider calls                                              *)
(***************************************************************************)
UrlsOf(p) == IF p = "grok" THEN GrokUrls ELSE IF p = "tavily" THEN TavilyUrls ELSE FirecrawlUrls

Range(q) == {q[i] : i \in 1..Len(q)}

\* the search call has left the gather
AfterGather == run.tool = "web_search" /\ run.gather.awaited # {} /\ run.pc \in {"done", "raised"}

\* C32: the primary provider and the 0-2 extra providers of one search call
\* are all awaited before the result is built; whichever of them fail, the
\* call returns a result without error whose sources are exactly the sources
\* of the providers that succeeded.
C32_JoinedProviders ==
    /\ run.pc = "gather" =>
          /\ "grok" \in run.gather.awaited
          /\ Cardinality(run.gather.awaited \ {"grok"}) \in 0..2
          /\ run.result = ToolResult({})
    /\ AfterGather =>
          /\ run.pc = "done"
          /\ run.gather.pending = {}
          /\ run.gather.succeeded \cup run.gather.failed = run.gather.awaited
          /\ "error" \notin run.result.keys
          /\ run.result.error = None
          /\ \E i \in 1..Len(cache) :
                /\ cache[i].key = run.result.session_id
                /\ Range(cache[i].value) = UNION {Range(UrlsOf(p)) : p \in run.gather.succeeded}
                /\ Len(cache[i].value) = Cardinality(Range(cache[i].value))
                /\ run.result.sources_count = Len(cache[i].value)

\* all three providers were awaited, the primary and one extra provider
\* failed, and the result holds the sources of the third
C32_Witness ==
    /\ AfterGather
    /\ run.gather.awaited = {"grok", "tavily", "firecrawl"}
    /\ run.gather.failed = {"grok", "firecrawl"}
    /\ run.result.sources_count = 2

\* the session objects created so far, in the store or only held by a task
Objects == {held.heap[id] : id \in held.ids}

\* the tasks whose search is between its user message and its answer
InFlight(id) == {t \in Tasks : tasks[t].pc = "providers" /\ tasks[t].conv_session = id}

\* C38: per-session turn cap under concurrency.  With max_searches >= 1,
\* under every interleaving of concurrent web_search, search_followup and
\* search_reflect requests that switch only at awaits, no session object, in
\* the store or held by a task, ever has search_count above max_searches: a
\* user message is appended only to a session whose search_count was below
\* max_searches at the append.
C38_TurnCap ==
    max_searches >= 1 =>
        /\ \A s \in Objects : s.search_count <= max_searches
        /\ \A i \in 1..Len(sessions) : sessions[i].search_count <= max_searches

\* two searches are in flight on one session that has reached the cap
C38_Witness ==
    \E id \in held.ids :
        /\ Cardinality(InFlight(id)) = 2
        /\ id \in Keys(sessions)
        /\ Lookup(sessions, id).search_count = max_searches

\* task t returns from web_search or search_followup with a result that is
\* not an error
ReturnsAnswer(t) ==
    /\ tasks[t].pc = Locked("cache_set")
    /\ tasks'[t].pc = "done"
    /\ tasks'[t].tool \in {"web_search", "search_followup"}
    /\ tasks'[t].result.kind = "ok"

\* the session object is under the turn cap and has not idled past the timeout
StillUsable(s, t) == ~is_over_limit(s, max_searches) /\ ~is_expired(s, t, session_timeout)

\* C39: returned conversation handle is usable.  When web_search or
\* search_followup returns a non-error result for a session whose
\* search_count is still below max_searches and which has not idled past the
\* timeout, the session named by the returned conversation_id is in the store
\* at that moment and holds the answer just produced, under every interleaving
\* with other concurrent searches.
C39_ReturnedHandleUsable ==
    [][\A t \in Tasks :
          (ReturnsAnswer(t)
             /\ StillUsable(held'.heap[tasks'[t].result.conversation_id], now'))
          => /\ tasks'[t].result.conversation_id \in Keys(sessions')
             /\ tasks'[t].answer_tracked]_vars

\* C39 (second part): a session with a search in flight is in the store
\* unless it was removed as expired or over the turn cap, so it is never
\* evicted for capacity.
C39_InFlightNotEvicted ==
    \A t \in Tasks :
        (tasks[t].pc = "providers"
           /\ StillUsable(held.heap[tasks[t].conv_session], now))
        => tasks[t].conv_session \in Keys(sessions)

\* task t is a search_followup call that passed its own lookup of
\* conversation c and has its session
FollowsUp(t, c) ==
    /\ tasks[t].tool = "search_followup"
    /\ tasks[t].checked = c
    /\ tasks[t].pc \in {"providers", "cache_set", Locked("cache_set"), "done"}

\* C36: follow-up stays in its conversation.  A search_followup call that
\* passes its own liveness check on conversation id C appends its query and
\* its answer to session C and returns conversation_id = C, under every
\* interleaving with other concurrent requests on the same store: it never
\* continues in a newly created conversation with another id while carrying
\* the history of C.
C36_FollowupStays ==
    \A t \in Tasks : \A c \in held.ids :
        FollowsUp(t, c) =>
            /\ tasks[t].conv_session = c
            /\ tasks[t].conversation_id = c
            /\ tasks[t].result.kind = "ok" => tasks[t].result.conversation_id = c

\* C36 where the clock read by the lookup of _execute_search is the clock
\* read by the lookup of search_followup: no other task runs between the
\* two, so the call stays in its conversation
C36_SameInstant ==
    \A t \in Tasks : \A c \in held.ids :
        (FollowsUp(t, c) /\ tasks[t].checked_at = tasks[t].looked_at) =>
            /\ tasks[t].conv_session = c
            /\ tasks[t].conversation_id = c
            /\ tasks[t].result.kind = "ok" => tasks[t].result.conversation_id = c

\* a follow-up that stayed in its conversation while another search was in
\* flight on it
C36_StayedWitness ==
    \E t \in Tasks : \E c \in held.ids :
        /\ FollowsUp(t, c)
        /\ tasks[t].conv_session = c
        /\ \E u \in Tasks \ {t} : tasks[u].pc = "providers" /\ tasks[u].conv_session = c

ManagerOperations == {"followup_get", "reflect_get", "exec_get", "create"}

CacheOperations == {"cache_set", "cache_get"}

\* what the tasks held at every lock acquisition and at every suspension on
\* the provider calls so far, and who holds a lock now
LockSafety ==
    /\ \A e \in held.log :
          /\ e.holding = {}
          /\ e.op \in ManagerOperations => e.lock = "manager"
          /\ e.op \in CacheOperations => e.lock = "cache"
    /\ \A t \in Tasks :
          /\ ~tasks[t].waiting
          /\ Cardinality(Holding(held, t)) <= 1
          /\ tasks[t].pc = "providers" => Holding(held, t) = {}
          /\ Holding(held, t) # {} => held.running = t

\* C31: lock discipline and deadlock freedom.  Every ConversationManager
\* operation acquires only the lock of the manager and every SourcesCache
\* operation only the lock of the cache; no task waits for one of the two
\* locks while it holds the other, and no task suspends on a network call
\* while it holds either; so under any interleaving of concurrent search,
\* follow-up, reflect and get_sources requests every lock acquisition is
\* eventually granted.
C31_LockDiscipline ==
    /\ []LockSafety
    /\ \A t \in Tasks :
          (tasks[t].pc \in WantsLock) ~> (tasks[t].pc \in {Locked(pc) : pc \in WantsLock})

\* a task holds the lock of the cache while the other is suspended in its
\* provider calls, after both locks were taken by each kind of operation
C31_Witness ==
    \E t \in Tasks : \E u \in Tasks \ {t} :
        /\ held.cache = t
        /\ tasks[u].pc = "providers"
        /\ {e.op : e \in held.log} \cap ManagerOperations # {}
        /\ "gather" \in {e.op : e \in held.log}

====
